---- MODULE Spec2Model ----
(***************************************************************************)
(* Document ingestion pipeline of RAG_CONV_AGENT: the upload use case      *)
(* (backend/application/use_cases/upload_document.py), the worker-side     *)
(* processing pipeline (backend/worker/use_cases/process_document.py) and  *)
(* the stores they act on (Document Store, Blob Store, Vector Index, Job   *)
(* Queue, Progress Broker).                                                 *)
(*                                                                         *)
(* Every `await` of the code is one step of the model.  A collaborator     *)
(* call either succeeds or raises an exception; the exception's text       *)
(* (str(e)) is drawn from ErrorTexts, which holds the empty text because   *)
(* str(Exception()) == "" in Python.                                       *)
(*                                                                         *)
(* Spec is the worker: processing attempts run one after the other, each   *)
(* job delivered up to MaxDeliveries times (at-least-once delivery).       *)
(* SpecUpload is the HTTP side: upload calls of two callers, interleaved   *)
(* at their awaits.                                                        *)
(* SpecDelete is the delete use case                                      *)
(* (backend/application/use_cases/delete_document.py): delete calls, one   *)
(* after the other, interleaved with a processing attempt of the worker.   *)
(* SpecRelay is the Progress Relay (backend/routes/documents.py,           *)
(* document_progress): SSE connections pulling from their subscriptions    *)
(* while messages are published on a document's channel.                   *)
(* SpecIngest is one upload call followed by the processing of its job.    *)
(* SpecTimeout is the worker whose attempts the job timeout of             *)
(* backend/worker/settings.py may cancel at any await.                     *)
(* SpecAgent is the chat agent (src/agents/simple_agent.py): inbox         *)
(* messages handled by concurrent tasks.                                   *)
(* SpecQuota is a tenant's second upload, interleaved with the processing  *)
(* of the first document and with delete calls.                            *)
(* SpecPool is the job queue adapter                                       *)
(* (backend/infrastructure/adapters/arq_job_queue_adapter.py): enqueue     *)
(* and close calls interleaved at their awaits.                            *)
(***************************************************************************)
EXTENDS Integers, Sequences, FiniteSets, TLC

----------------------------------------------------------------------------
(* Bounds of the model *)

\* Largest number of chunks the splitter yields for one document.
MaxChunks == 21

\* Largest number of deliveries of one job (at-least-once redelivery).
MaxDeliveries == 2

\* Largest number of messages published on the progress channels.
MaxMessages == 2

\* Largest number of chunks the agent streams for one message.
MaxChunkEvents == 2

\* Largest number of search_documents calls made while answering one message.
MaxSearches == 1

\* Largest number of enqueue calls made on the adapter.
MaxEnqueues == 3

\* Largest number of close calls made on the adapter.
MaxCloses == 2

\* Largest number of pulls that time out, over all connections.
MaxHeartbeats == 1

\* Largest number of delete calls in one behaviour.
MaxDeletes == 2

\* Largest number of upload calls in one behaviour.
MaxUploads == 2

\* Largest page count the PDF analyzer reports in the model.
MaxPagesInFile == 2

\* settings.MAX_UPLOAD_SIZE_BYTES (upload_document.py:49) is read from the
\* deployment's configuration; the model counts sizes in units of this limit.
MAX_UPLOAD_SIZE_BYTES == 1

\* settings.MAX_PAGES_PER_COMPANY (upload_document.py:58), likewise configured.
MAX_PAGES_PER_COMPANY == 3

----------------------------------------------------------------------------
(* Program constants *)

\* process_document.py:20
BATCH_SIZE == 10


\* DocumentStatus values (backend.domain.models.document.DocumentStatus).
QUEUED == "queued"
VECTORIZING == "vectorizing"
COMPLETED == "completed"
FAILED == "failed"

\* The accepted media type.
PDF == "application/pdf"

\* SQL NULL / Python None in a text column; differs from every text, "" included.
NULL == "NULL"

\* Document ids in the order uuid4 mints them; ids are opaque, so the order of
\* minting stands for their identity.
IdOrder == <<"d1", "d2", "d3", "d4">>
DocIds == {IdOrder[i] : i \in 1 .. Len(IdOrder)}
Companies == {"t1", "t2"}

\* Texts str(e) of the exceptions collaborators raise.
ErrorTexts == {"", "unavailable"}

\* Text of the exception the Blob Store raises for a key it does not hold.
BlobNotFound == "blob not found"

NoDoc == [status |-> "absent"]
NoJob == [document_id |-> "none"]

----------------------------------------------------------------------------
VARIABLES
    docs,       \* Document Store: DocIds -> row, or NoDoc
    blobs,      \* Blob Store: storage key -> content, for the keys it holds
    queue,      \* Job Queue: set of payloads waiting for a worker
    index,      \* Vector Index: DocIds -> number of chunks tagged with the id
    published,  \* Progress Broker: DocIds -> events published on the document's
                \* channel since its latest processing attempt started
    w,          \* the processing attempt the worker is running
    delivered,  \* DocIds -> number of times the document's job was delivered
    hist,       \* DocIds -> outcome of each finished attempt, oldest first
    up,         \* Callers -> the upload call the caller has in progress
    calls,      \* number of upload calls begun so far
    del,        \* the delete call in progress (or the last one)
    relay,      \* Connections -> the Progress Relay stream of the connection
    agent,      \* the chat agent: its per-tenant agents and the messages it handles
    pool        \* ArqJobQueueAdapter: its Redis pool and the calls made on it

vars == <<docs, blobs, queue, index, published, w, delivered, hist, up, calls, del, relay,
          agent, pool>>

----------------------------------------------------------------------------
(* Helpers *)

\* f"{company_id}/{document_id}": the storage key the Blob Store returns.
StorageKey(c, d) == <<c, d>>

\* Job payload wire shape (tasks.py:16-20, upload_document.py:75-80).
Payload(d, c, k) == [document_id |-> d, company_id |-> c, gcs_path |-> k]

\* json.dumps({...}) of _publish_progress.
Event(d, step, progress, message, done) ==
    [document_id |-> d, step |-> step, progress |-> progress,
     message |-> message, done |-> done]

\* An update_status that also resets the storage key.
UpdateStatus_ClearsKey(store, d, status, error_message) ==
    IF store[d] = NoDoc THEN store
    ELSE [store EXCEPT ![d].status = status, ![d].error_message = error_message,
                       ![d].gcs_path = <<>>]

\* PostgresDocumentRepository.update_status: UPDATE ... SET status, error_message
\* WHERE document_id; a missing row is left missing.
UpdateStatus(store, d, status, error_message) ==
    IF store[d] = NoDoc THEN store
    ELSE [store EXCEPT ![d].status = status, ![d].error_message = error_message]

\* len(batches): range(0, total_chunks, BATCH_SIZE)
NumBatches(n) == (n + BATCH_SIZE - 1) \div BATCH_SIZE

Min(a, b) == IF a < b THEN a ELSE b

\* The row repo.create inserts for a Document fresh from Document.create:
\* status queued, no error message   (document_repository.py:21-46).
Row(c, filename, k, pages) ==
    [company_id |-> c, filename |-> filename, gcs_path |-> k, num_pages |-> pages,
     status |-> QUEUED, error_message |-> NULL]

\* No delete call has been made yet.
NoDelete == [pc |-> "idle", document_id |-> "none", company_id |-> "none",
             document |-> NoDoc, error |-> [type |-> "none"], n |-> 0,
             held |-> FALSE]

\* Inbox messages the agent is handed at the same time.
Msgs == {"m1", "m2"}

\* A message the agent has not received.
NoMsg == [pc |-> "idle", company_id |-> "none", state |-> "none",
          out |-> <<>>, filters |-> <<>>, error |-> "none"]

\* The agent before any message: no per-tenant agent built, no context set up.
NoAgent == [cache |-> {}, latest |-> "none", msgs |-> [m \in Msgs |-> NoMsg]]

\* Callers of ArqJobQueueAdapter.enqueue running at the same time.
Enqueuers == {"e1", "e2"}

\* The adapter after __init__ (33-35): no pool, no call made.
\* Pools are numbered in the order of the create_pool calls; 0 stands for None.
NoPool == [pool |-> 0, created |-> 0, aclosed |-> {}, closes |-> 0, enqueues |-> 0,
           close |-> "idle", closing |-> 0, raced |-> FALSE,
           call |-> [e \in Enqueuers |-> [pc |-> "idle", pool |-> 0]]]

\* SSE connections to GET /documents/{document_id}/progress.
Connections == {"k1", "k2"}

\* A connection whose event_generator has not started.
NoStream == [pc |-> "idle", open |-> FALSE, document_id |-> "none",
             inbox |-> <<>>, out |-> <<>>, pulled |-> <<>>, timeouts |-> 0,
             why |-> "none", since |-> 0]

\* A lookup by document_id alone, whatever the tenant.
GetById_AnyTenant(store, d, c) == store[d]

\* PostgresDocumentRepository.get_by_id: SELECT ... WHERE document_id = $1 AND
\* company_id = $2; None when no row matches.
GetById(store, d, c) ==
    IF store[d] # NoDoc /\ store[d].company_id = c THEN store[d] ELSE NoDoc

\* _chunk, 84: filename = document.filename if document else "unknown.pdf"
SourceOf(document) ==
    IF document = NoDoc THEN "unknown.pdf" ELSE document.filename

----------------------------------------------------------------------------
(* Processing Pipeline: ProcessDocumentUseCase *)

Idle == [pc |-> "idle", job |-> NoJob, file |-> 0, chunks |-> 0, batch_idx |-> 0,
         error |-> "", failed |-> FALSE, injected |-> FALSE,
         start |-> "absent", writes |-> <<>>, source |-> "none"]

Ended == {"returned", "raised"}

\* Events the running (or last) attempt has published on its channel so far.
AttemptEvents ==
    IF w.job = NoJob THEN <<>> ELSE published[w.job.document_id]

\* except Exception as e: await self._fail(document_id, e, channel)   (execute, 55-56)
HandlerPc == "fail_update"

\* A stage raises e inside the try block of execute: control goes to _fail.
Raise(e, inj) ==
    w' = [w EXCEPT !.pc = HandlerPc, !.error = e, !.failed = TRUE,
                   !.injected = @ \/ inj]

\* self._broker.publish(channel, event) returned: the event is on the channel.
Publish(step, progress, message, done) ==
    published' = [published EXCEPT ![w.job.document_id] =
        Append(@, Event(w.job.document_id, step, progress, message, done))]

\* The attempt is over; what it left behind is recorded for the document.
Finish(result, store) ==
    hist' = [hist EXCEPT ![w.job.document_id] =
        Append(@, [status |-> store[w.job.document_id].status,
                   result |-> result,
                   injected |-> w.injected])]

\* arq hands a queued job to process_document (tasks.py:8-20), which calls execute.
StartAttempt ==
    /\ w.pc \in {"idle"} \cup Ended
    /\ \E j \in queue :
        /\ queue' = queue \ {j}
        /\ delivered' = [delivered EXCEPT ![j.document_id] = @ + 1]
        /\ published' = [published EXCEPT ![j.document_id] = <<>>]
        /\ w' = [Idle EXCEPT !.pc = "download_publish0", !.job = j,
                             !.start = docs[j.document_id].status]
    /\ UNCHANGED <<docs, blobs, index, hist, up, calls, del, relay, agent, pool>>

\* At-least-once delivery: the broker hands out again a job whose attempt is over.
Redeliver ==
    /\ w.pc \in Ended
    /\ delivered[w.job.document_id] < MaxDeliveries
    /\ w.job \notin queue
    /\ queue' = queue \cup {w.job}
    /\ w' = [w EXCEPT !.pc = "idle"]
    /\ UNCHANGED <<docs, blobs, index, published, delivered, hist, up, calls, del, relay,
                 agent, pool>>

\* _download, 62-65: publish downloading 0
DownloadPublish0 ==
    /\ w.pc = "download_publish0"
    /\ \/ /\ Publish("downloading", 0, <<"Telechargement du fichier...">>, FALSE)
          /\ w' = [w EXCEPT !.pc = "download_get"]
       \/ /\ \E e \in ErrorTexts : Raise(e, TRUE)
          /\ UNCHANGED published
    /\ UNCHANGED <<docs, blobs, queue, index, delivered, hist, up, calls, del, relay, agent, pool>>

\* _download, 66: file_content = await self._storage.download(gcs_path)
DownloadGet ==
    /\ w.pc = "download_get"
    /\ \/ /\ w.job.gcs_path \in DOMAIN blobs
          /\ w' = [w EXCEPT !.pc = "download_publish10",
                            !.file = blobs[w.job.gcs_path]]
       \/ /\ w.job.gcs_path \notin DOMAIN blobs
          /\ Raise(BlobNotFound, FALSE)
       \/ \E e \in ErrorTexts : Raise(e, TRUE)
    /\ UNCHANGED <<docs, blobs, queue, index, published, delivered, hist, up, calls, del, relay,
                 agent, pool>>

\* A slip that drops the update_status call opening _chunk.
AfterDownload_SkipUpdate == "chunk_publish10"

\* After _download returns (51) execute calls _chunk (52), whose first call is
\* update_status(VECTORIZING) (77).
AfterDownload == "chunk_update"

\* _download, 67-70: publish downloading 10
DownloadPublish10 ==
    /\ w.pc = "download_publish10"
    /\ \/ /\ Publish("downloading", 10, <<"Fichier telecharge">>, FALSE)
          /\ w' = [w EXCEPT !.pc = AfterDownload]
       \/ /\ \E e \in ErrorTexts : Raise(e, TRUE)
          /\ UNCHANGED published
    /\ UNCHANGED <<docs, blobs, queue, index, delivered, hist, up, calls, del, relay, agent, pool>>

\* _chunk, 77: update_status(document_id, VECTORIZING)
ChunkUpdate ==
    /\ w.pc = "chunk_update"
    /\ \/ /\ docs' = UpdateStatus(docs, w.job.document_id, VECTORIZING, NULL)
          /\ w' = [w EXCEPT !.pc = "chunk_publish10",
                            !.writes = Append(@, VECTORIZING)]
       \/ /\ \E e \in ErrorTexts : Raise(e, TRUE)
          /\ UNCHANGED docs
    /\ UNCHANGED <<blobs, queue, index, published, delivered, hist, up, calls, del, relay,
                 agent, pool>>

\* _chunk, 78-81: publish vectorizing 10
ChunkPublish10 ==
    /\ w.pc = "chunk_publish10"
    /\ \/ /\ Publish("vectorizing", 10, <<"Decoupage du document en chunks...">>, FALSE)
          /\ w' = [w EXCEPT !.pc = "chunk_split"]
       \/ /\ \E e \in ErrorTexts : Raise(e, TRUE)
          /\ UNCHANGED published
    /\ UNCHANGED <<docs, blobs, queue, index, delivered, hist, up, calls, del, relay, agent, pool>>

\* _chunk, 83-85: get_by_id, then _chunk_pdf (135-166).  The content of a blob is
\* modelled by the number of chunks the splitter yields for it; every chunk gets
\* the job's company_id and document_id and the filename as source (160-163).
ChunkSplit ==
    /\ w.pc = "chunk_split"
    /\ \/ w' = [w EXCEPT !.pc = "chunk_publish20", !.chunks = w.file,
                          !.source = SourceOf(GetById(docs, w.job.document_id,
                                                      w.job.company_id))]
       \/ \E e \in ErrorTexts : Raise(e, TRUE)
    /\ UNCHANGED <<docs, blobs, queue, index, published, delivered, hist, up, calls, del, relay,
                 agent, pool>>

\* A _complete that announces the end before it writes anything.
AfterEmbed_PublishFirst == "complete_publish"

\* After _embed returns (53) execute calls _complete (54).
AfterEmbed == "complete_update"

\* A loop that stops one batch early.
EmbedNext_OffByOne(batch_idx, total_chunks) ==
    IF total_chunks = 0 \/ batch_idx + 1 >= NumBatches(total_chunks)
    THEN AfterEmbed ELSE "embed_add"

\* A stage that enters its loop although there is no chunk.
EmbedNext_EmptyLoops(batch_idx, total_chunks) ==
    IF total_chunks # 0 /\ batch_idx >= NumBatches(total_chunks)
    THEN AfterEmbed ELSE "embed_add"

\* _embed, 95-97 and the loop head 102: no chunk, or no batch left, ends the stage.
EmbedNext(batch_idx, total_chunks) ==
    IF total_chunks = 0 \/ batch_idx >= NumBatches(total_chunks)
    THEN AfterEmbed ELSE "embed_add"

\* _chunk, 87-90: publish vectorizing 20
ChunkPublish20 ==
    /\ w.pc = "chunk_publish20"
    /\ \/ /\ Publish("vectorizing", 20, <<"chunk(s) cree(s)", w.chunks>>, FALSE)
          /\ w' = [w EXCEPT !.pc = EmbedNext(0, w.chunks)]
       \/ /\ \E e \in ErrorTexts : Raise(e, TRUE)
          /\ UNCHANGED published
    /\ UNCHANGED <<docs, blobs, queue, index, delivered, hist, up, calls, del, relay, agent, pool>>

\* len(chunks[i:i + BATCH_SIZE]) for i = batch_idx * BATCH_SIZE   (_embed, 99)
BatchLen(batch_idx, total_chunks) ==
    Min(BATCH_SIZE, total_chunks - batch_idx * BATCH_SIZE)

\* _embed, 103: await self._vector_store.add_documents(batch)
EmbedAdd ==
    /\ w.pc = "embed_add"
    /\ \/ /\ index' = [index EXCEPT ![w.job.document_id] =
                          @ + BatchLen(w.batch_idx, w.chunks)]
          /\ w' = [w EXCEPT !.pc = "embed_publish"]
       \/ /\ \E e \in ErrorTexts : Raise(e, TRUE)
          /\ UNCHANGED index
    /\ UNCHANGED <<docs, blobs, queue, published, delivered, hist, up, calls, del, relay,
                 agent, pool>>

\* Progress computed from the batches left instead of the batches done.
EmbedProgress_Remaining(completed, total_batches) ==
    20 + (((total_batches - completed) * 75) \div total_batches)

\* _embed, 105: progress = 20 + int(((batch_idx + 1) / total_batches) * 75),
\* with completed = batch_idx + 1.  int() truncates; the float product equals the
\* exact quotient for every batch count the model reaches.
EmbedProgress(completed, total_batches) ==
    20 + ((completed * 75) \div total_batches)

\* _embed, 106: processed = min((batch_idx + 1) * BATCH_SIZE, total_chunks)
Processed(batch_idx, total_chunks) ==
    Min((batch_idx + 1) * BATCH_SIZE, total_chunks)

\* _embed, 107-110: publish the batch's progress, then the next batch
EmbedPublish ==
    /\ w.pc = "embed_publish"
    /\ \/ /\ Publish("vectorizing",
                     EmbedProgress(w.batch_idx + 1, NumBatches(w.chunks)),
                     <<"Indexation", Processed(w.batch_idx, w.chunks), w.chunks>>,
                     FALSE)
          /\ w' = [w EXCEPT !.pc = EmbedNext(w.batch_idx + 1, w.chunks),
                            !.batch_idx = @ + 1]
       \/ /\ \E e \in ErrorTexts : Raise(e, TRUE)
          /\ UNCHANGED published
    /\ UNCHANGED <<docs, blobs, queue, index, delivered, hist, up, calls, del, relay, agent, pool>>

\* _complete, 114: update_status(document_id, COMPLETED)
CompleteUpdate ==
    /\ w.pc = "complete_update"
    /\ \/ /\ docs' = UpdateStatus(docs, w.job.document_id, COMPLETED, NULL)
          /\ w' = [w EXCEPT !.pc = "complete_delete",
                            !.writes = Append(@, COMPLETED)]
       \/ /\ \E e \in ErrorTexts : Raise(e, TRUE)
          /\ UNCHANGED docs
    /\ UNCHANGED <<blobs, queue, index, published, delivered, hist, up, calls, del, relay,
                 agent, pool>>

\* _complete, 115: await self._storage.delete(gcs_path)
CompleteDelete ==
    /\ w.pc = "complete_delete"
    /\ \/ /\ blobs' = [k \in DOMAIN blobs \ {w.job.gcs_path} |-> blobs[k]]
          /\ w' = [w EXCEPT !.pc = "complete_publish"]
       \/ /\ \E e \in ErrorTexts : Raise(e, TRUE)
          /\ UNCHANGED blobs
    /\ UNCHANGED <<docs, queue, index, published, delivered, hist, up, calls, del, relay,
                 agent, pool>>

\* _complete, 116-120: publish completed 100 done=True; execute returns.
CompletePublish ==
    /\ w.pc = "complete_publish"
    /\ \/ /\ Publish("completed", 100, <<"Traitement termine">>, TRUE)
          /\ w' = [w EXCEPT !.pc = "returned"]
          /\ Finish("returned", docs)
       \/ /\ \E e \in ErrorTexts : Raise(e, TRUE)
          /\ UNCHANGED <<published, hist>>
    /\ UNCHANGED <<docs, blobs, queue, index, delivered, up, calls, del, relay, agent, pool>>

\* What _fail stores as error_message: str(error)   (126)
FailMessage(error) == error

\* _fail, 125-127: update_status(document_id, FAILED, error_message=str(error)).
\* _fail has no handler of its own: an exception here leaves execute.
FailUpdate ==
    /\ w.pc = "fail_update"
    /\ \/ /\ docs' = UpdateStatus(docs, w.job.document_id, FAILED,
                                  FailMessage(w.error))
          /\ w' = [w EXCEPT !.pc = "fail_publish", !.writes = Append(@, FAILED)]
          /\ UNCHANGED hist
       \/ /\ \E e \in ErrorTexts : w' = [w EXCEPT !.pc = "raised", !.injected = TRUE]
          /\ Finish("raised", docs)
          /\ UNCHANGED docs
    /\ UNCHANGED <<blobs, queue, index, published, delivered, up, calls, del, relay, agent, pool>>

\* _fail, 128-131: publish failed 0 str(error) done=True; execute returns.
FailPublish ==
    /\ w.pc = "fail_publish"
    /\ \/ /\ Publish("failed", 0, <<w.error>>, TRUE)
          /\ w' = [w EXCEPT !.pc = "returned"]
          /\ Finish("returned", docs)
       \/ /\ \E e \in ErrorTexts : w' = [w EXCEPT !.pc = "raised", !.injected = TRUE]
          /\ Finish("raised", docs)
          /\ UNCHANGED published
    /\ UNCHANGED <<docs, blobs, queue, index, delivered, up, calls, del, relay, agent, pool>>

----------------------------------------------------------------------------
(* Upload Pipeline: UploadDocumentUseCase *)

\* HTTP requests being served at the same time.
Callers == {"u1", "u2"}

ContentTypes == {PDF, "text/plain"}

\* len(content) of the uploaded files: at the limit, and one over it.
Sizes == {MAX_UPLOAD_SIZE_BYTES, MAX_UPLOAD_SIZE_BYTES + 1}

\* Page counts the PDF analyzer reports.
PageCounts == {1, MaxPagesInFile}

NoError == [type |-> "none"]

NoUpload == [pc |-> "idle", company_id |-> "none", content_type |-> "none",
             size_bytes |-> 0, num_pages |-> 0, document_id |-> "none",
             gcs_path |-> <<>>, current_total |-> 0, error |-> NoError,
             at |-> "none"]

\* Document.create: the content type is checked, then the size; the Document gets
\* status queued and no error message.
DocumentCreate(content_type, size_bytes) ==
    IF content_type # PDF THEN [type |-> "InvalidFileTypeError"]
    ELSE IF size_bytes > MAX_UPLOAD_SIZE_BYTES THEN [type |-> "FileTooLargeError"]
    ELSE NoError

\* document_id of the n-th call: uuid4 never repeats.
NewId(n) == IdOrder[n]

\* A call that goes on to its collaborators whatever Document.create said.
AfterCreate_IgnoreError(error) == "total_pages"

\* execute, 44-50: the first thing the call does is Document.create; when it
\* raises, the call ends there, before any collaborator is touched.
AfterCreate(error) == IF error = NoError THEN "total_pages" ELSE "failed"

\* execute, 44-54: Document.create (validation) and count_pages, both synchronous.
UploadBegin(u) ==
    /\ up[u].pc \in {"idle", "returned", "failed"}
    /\ calls < MaxUploads
    /\ calls < Len(IdOrder)
    /\ calls' = calls + 1
    /\ \E c \in Companies, t \in ContentTypes,
          s \in Sizes, n \in PageCounts :
        LET err == DocumentCreate(t, s) IN
        up' = [up EXCEPT ![u] =
                 [NoUpload EXCEPT !.pc = AfterCreate(err), !.company_id = c,
                                  !.content_type = t, !.size_bytes = s,
                                  !.num_pages = IF err = NoError THEN n ELSE 0,
                                  !.document_id = NewId(calls + 1),
                                  !.error = err]]
    /\ UNCHANGED <<docs, blobs, queue, index, published, w, delivered, hist,
                   del, relay, agent, pool>>

\* PostgresDocumentRepository.get_total_pages: COALESCE(SUM(num_pages), 0)
\* over the rows of the company.
RECURSIVE SumPages(_, _, _)
SumPages(store, c, ids) ==
    IF ids = {} THEN 0
    ELSE LET d == CHOOSE x \in ids : TRUE IN
         (IF store[d] # NoDoc /\ store[d].company_id = c
          THEN store[d].num_pages ELSE 0) + SumPages(store, c, ids \ {d})

\* The pages of the company's rows that are in status s.
RECURSIVE PagesWithStatus(_, _, _, _)
PagesWithStatus(store, c, s, ids) ==
    IF ids = {} THEN 0
    ELSE LET d == CHOOSE x \in ids : TRUE IN
         (IF store[d] # NoDoc /\ store[d].company_id = c /\ store[d].status = s
          THEN store[d].num_pages ELSE 0)
         + PagesWithStatus(store, c, s, ids \ {d})

\* A total that counts only the documents whose processing completed.
GetTotalPages_CompletedOnly(store, c) == PagesWithStatus(store, c, COMPLETED, DocIds)

GetTotalPages(store, c) == SumPages(store, c, DocIds)

\* A call that never turns an upload away for its pages.
OverQuota_Never(current_total, num_pages) == FALSE

\* A quota check that also turns away the upload that fills the quota exactly.
OverQuota_AtLimit(current_total, num_pages) ==
    current_total + num_pages >= MAX_PAGES_PER_COMPANY

\* execute, 59: if current_total + num_pages > max_pages
OverQuota(current_total, num_pages) ==
    current_total + num_pages > MAX_PAGES_PER_COMPANY

\* A call that persists the Document before it uploads the blob.
StepAfter_CreateFirst(pc) ==
    CASE pc = "total_pages" -> "repo_create"
      [] pc = "repo_create" -> "storage_upload"
      [] pc = "storage_upload" -> "enqueue"
      [] pc = "enqueue" -> "returned"

\* A call that enqueues the job before it persists the Document.
StepAfter_EnqueueFirst(pc) ==
    CASE pc = "total_pages" -> "storage_upload"
      [] pc = "storage_upload" -> "enqueue"
      [] pc = "enqueue" -> "repo_create"
      [] pc = "repo_create" -> "returned"

\* execute, 57-86: the order of the awaited calls after validation: quota read,
\* storage.upload, repo.create, job_queue.enqueue, return.
StepAfter(pc) ==
    CASE pc = "total_pages" -> "storage_upload"
      [] pc = "storage_upload" -> "repo_create"
      [] pc = "repo_create" -> "enqueue"
      [] pc = "enqueue" -> "returned"

\* An enqueue that raises although the job reached the queue.
EnqueueFailed_JobKept(q, job) == q \cup {job}

\* enqueue raised (arq_job_queue_adapter.py:42-45): the job is not in the queue.
EnqueueFailed(q, job) == q

\* A collaborator call of the upload raises: the exception leaves execute.
UploadRaise(u) ==
    up' = [up EXCEPT ![u].pc = "failed", ![u].error = [type |-> "Exception"],
                     ![u].at = up[u].pc]

\* execute, 57-60: read the tenant's total, check the quota.
UploadTotalPages(u) ==
    /\ up[u].pc = "total_pages"
    /\ \/ LET total == GetTotalPages(docs, up[u].company_id) IN
          IF OverQuota(total, up[u].num_pages)
          THEN up' = [up EXCEPT ![u].pc = "failed", ![u].current_total = total,
                        ![u].error = [type |-> "PageLimitExceededError",
                                      args |-> <<total, up[u].num_pages,
                                                 MAX_PAGES_PER_COMPANY>>]]
          ELSE up' = [up EXCEPT ![u].pc = StepAfter("total_pages"),
                                ![u].current_total = total]
       \/ UploadRaise(u)
    /\ UNCHANGED <<docs, blobs, queue, index, published, w, delivered, hist, calls, del, relay,
                 agent, pool>>

\* execute, 63-69: upload the bytes to the Blob Store.  A file of p pages is
\* taken to split into p chunks.
UploadStorage(u) ==
    /\ up[u].pc = "storage_upload"
    /\ \/ LET k == StorageKey(up[u].company_id, up[u].document_id) IN
          /\ blobs' = [x \in DOMAIN blobs \cup {k} |->
                         IF x = k THEN up[u].num_pages ELSE blobs[x]]
          /\ up' = [up EXCEPT ![u].pc = StepAfter("storage_upload"), ![u].gcs_path = k]
       \/ /\ UploadRaise(u)
          /\ UNCHANGED blobs
    /\ UNCHANGED <<docs, queue, index, published, w, delivered, hist, calls, del, relay,
                 agent, pool>>

\* execute, 72: await self._repo.create(document)
UploadCreate(u) ==
    /\ up[u].pc = "repo_create"
    /\ \/ /\ docs' = [docs EXCEPT ![up[u].document_id] =
                        Row(up[u].company_id, "a.pdf", up[u].gcs_path,
                            up[u].num_pages)]
          /\ up' = [up EXCEPT ![u].pc = StepAfter("repo_create")]
       \/ /\ UploadRaise(u)
          /\ UNCHANGED docs
    /\ UNCHANGED <<blobs, queue, index, published, w, delivered, hist, calls, del, relay,
                 agent, pool>>

\* execute, 75-86: enqueue the job, return the document.
UploadEnqueue(u) ==
    /\ up[u].pc = "enqueue"
    /\ \/ /\ queue' = queue \cup {Payload(up[u].document_id, up[u].company_id,
                                          up[u].gcs_path)}
          /\ up' = [up EXCEPT ![u].pc = StepAfter("enqueue")]
       \/ /\ UploadRaise(u)
          /\ queue' = EnqueueFailed(queue, Payload(up[u].document_id,
                                                   up[u].company_id,
                                                   up[u].gcs_path))
    /\ UNCHANGED <<docs, blobs, index, published, w, delivered, hist, calls, del, relay,
                 agent, pool>>

InitUpload ==
    /\ docs = [d \in DocIds |-> NoDoc]
    /\ blobs = <<>>
    /\ queue = {}
    /\ index = [d \in DocIds |-> 0]
    /\ published = [d \in DocIds |-> <<>>]
    /\ w = Idle
    /\ delivered = [d \in DocIds |-> 0]
    /\ hist = [d \in DocIds |-> <<>>]
    /\ up = [u \in Callers |-> NoUpload]
    /\ calls = 0
    /\ del = NoDelete
    /\ relay = [k \in Connections |-> NoStream]
    /\ agent = NoAgent
    /\ pool = NoPool

NextUpload ==
    \/ \E u \in Callers : UploadBegin(u)
    \/ \E u \in Callers : UploadTotalPages(u)
    \/ \E u \in Callers : UploadStorage(u)
    \/ \E u \in Callers : UploadCreate(u)
    \/ \E u \in Callers : UploadEnqueue(u)

SpecUpload == InitUpload /\ [][NextUpload]_vars

----------------------------------------------------------------------------
(* The worker specification: documents as a successful upload leaves them. *)

\* Chunk counts of the uploaded contents: none, one batch, a full batch, more.
Contents == {0, 1, BATCH_SIZE, BATCH_SIZE + 1, MaxChunks}

Init ==
    /\ docs = [d \in DocIds |->
                 IF d = "d1" THEN Row("t1", "a.pdf", StorageKey("t1", "d1"), 1)
                 ELSE IF d = "d2" THEN Row("t2", "a.pdf", StorageKey("t2", "d2"), 1)
                 ELSE NoDoc]
    /\ \E c1 \in Contents :
          blobs = (StorageKey("t1", "d1") :> c1) @@ (StorageKey("t2", "d2") :> 1)
    \* d2 is a queued document whose enqueue failed (upload_document.py:72-80):
    \* it has a row and a blob and no job.
    /\ queue = {Payload("d1", "t1", StorageKey("t1", "d1"))}
    /\ index = [d \in DocIds |-> 0]
    /\ published = [d \in DocIds |-> <<>>]
    /\ w = Idle
    /\ delivered = [d \in DocIds |-> 0]
    /\ hist = [d \in DocIds |-> <<>>]
    /\ up = [u \in Callers |-> NoUpload]
    /\ calls = 2
    /\ del = NoDelete
    /\ relay = [k \in Connections |-> NoStream]
    /\ agent = NoAgent
    /\ pool = NoPool

Next ==
    \/ StartAttempt
    \/ Redeliver
    \/ DownloadPublish0
    \/ DownloadGet
    \/ DownloadPublish10
    \/ ChunkUpdate
    \/ ChunkPublish10
    \/ ChunkSplit
    \/ ChunkPublish20
    \/ EmbedAdd
    \/ EmbedPublish
    \/ CompleteUpdate
    \/ CompleteDelete
    \/ CompletePublish
    \/ FailUpdate
    \/ FailPublish

Spec == Init /\ [][Next]_vars

----------------------------------------------------------------------------
(* Delete: DeleteDocumentUseCase *)

\* Document.get_or_fail: raises DocumentNotFoundError when handed None.
GetOrFail(document) ==
    IF document = NoDoc THEN [type |-> "DocumentNotFoundError"] ELSE NoError

\* A delete that forgets the vector entries.
VectorDelete_Skipped(idx, d) == idx

\* VectorStorePort.delete_by_document_id: no chunk tagged with the id is left.
VectorDelete(idx, d) == [idx EXCEPT ![d] = 0]

\* FileStoragePort.delete: the key is no longer held; a key that is not held is
\* left alone.
StorageDelete(bl, k) == [x \in DOMAIN bl \ {k} |-> bl[x]]

\* PostgresDocumentRepository.delete: DELETE ... WHERE document_id = $1 AND
\* company_id = $2.
RepoDelete(store, d, c) ==
    IF GetById(store, d, c) # NoDoc THEN [store EXCEPT ![d] = NoDoc] ELSE store

\* execute, 36: if document.gcs_path
HasStorageKey(document) == document.gcs_path # <<>>

\* A collaborator call of the delete raises: the exception leaves execute.
DeleteRaise ==
    del' = [del EXCEPT !.pc = "failed", !.error = [type |-> "Exception"]]

\* routes/documents.py, 162-171: the response status of DELETE /documents/{id}.
DeleteStatusCode(error) ==
    CASE error.type = "none" -> 200
      [] error.type = "DocumentNotFoundError" -> 404
      [] OTHER -> 500

\* Document ids delete is called with: a processed one, an orphan, a missing one.
DeleteTargets == {"d1", "d2", "d3"}

\* execute, 27-30: get_by_id, then Document.get_or_fail.
DeleteGet ==
    /\ del.pc \in {"idle", "returned", "failed"}
    /\ del.n < MaxDeletes
    /\ \E d \in DeleteTargets, c \in Companies :
        LET call == [NoDelete EXCEPT !.document_id = d, !.company_id = c,
                                     !.n = del.n + 1]
            document == GetById(docs, d, c)
        IN  \/ del' = [call EXCEPT !.document = document,
                                   !.error = GetOrFail(document),
                                   !.pc = IF GetOrFail(document) = NoError
                                          THEN "vector_delete" ELSE "failed"]
            \/ del' = [call EXCEPT !.pc = "failed", !.error = [type |-> "Exception"]]
    /\ UNCHANGED <<docs, blobs, queue, index, published, w, delivered, hist, up,
                   calls, relay, agent, pool>>

\* execute, 33: await self._vector_store.delete_by_document_id(document_id)
DeleteVectors ==
    /\ del.pc = "vector_delete"
    /\ \/ /\ index' = VectorDelete(index, del.document_id)
          /\ del' = [del EXCEPT !.pc = IF HasStorageKey(del.document)
                                       THEN "storage_delete" ELSE "repo_delete"]
       \/ /\ DeleteRaise
          /\ UNCHANGED index
    /\ UNCHANGED <<docs, blobs, queue, published, w, delivered, hist, up, calls,
                   relay, agent, pool>>

\* execute, 36-37: await self._storage.delete(document.gcs_path); held records
\* whether the Blob Store held the key when it was asked to delete it.
DeleteBlob ==
    /\ del.pc = "storage_delete"
    /\ \/ /\ blobs' = StorageDelete(blobs, del.document.gcs_path)
          /\ del' = [del EXCEPT !.pc = "repo_delete",
                                 !.held = del.document.gcs_path \in DOMAIN blobs]
       \/ /\ DeleteRaise
          /\ UNCHANGED blobs
    /\ UNCHANGED <<docs, queue, index, published, w, delivered, hist, up, calls,
                   relay, agent, pool>>

\* execute, 40: await self._repo.delete(document_id, company_id); execute returns.
DeleteRow ==
    /\ del.pc = "repo_delete"
    /\ \/ /\ docs' = RepoDelete(docs, del.document_id, del.company_id)
          /\ del' = [del EXCEPT !.pc = "returned"]
       \/ /\ DeleteRaise
          /\ UNCHANGED docs
    /\ UNCHANGED <<blobs, queue, index, published, w, delivered, hist, up, calls,
                   relay, agent, pool>>

\* Chunk counts of d1's content: one batch, two batches.
DeleteContents == {1, BATCH_SIZE + 1}

\* Documents as uploads left them: d1 with its job, d2 an orphan of another tenant.
InitDelete ==
    /\ docs = [d \in DocIds |->
                 IF d = "d1" THEN Row("t1", "a.pdf", StorageKey("t1", "d1"), 1)
                 ELSE IF d = "d2" THEN Row("t2", "a.pdf", StorageKey("t2", "d2"), 1)
                 ELSE NoDoc]
    /\ \E c1 \in DeleteContents :
          blobs = (StorageKey("t1", "d1") :> c1) @@ (StorageKey("t2", "d2") :> 1)
    /\ queue = {Payload("d1", "t1", StorageKey("t1", "d1"))}
    /\ index = [d \in DocIds |-> 0]
    /\ published = [d \in DocIds |-> <<>>]
    /\ w = Idle
    /\ delivered = [d \in DocIds |-> 0]
    /\ hist = [d \in DocIds |-> <<>>]
    /\ up = [u \in Callers |-> NoUpload]
    /\ calls = 2
    /\ del = NoDelete
    /\ relay = [k \in Connections |-> NoStream]
    /\ agent = NoAgent
    /\ pool = NoPool

\* Delete calls, one after the other, while the worker processes d1's job.
NextDelete ==
    \/ DeleteGet
    \/ DeleteVectors
    \/ DeleteBlob
    \/ DeleteRow
    \/ StartAttempt
    \/ DownloadPublish0
    \/ DownloadGet
    \/ DownloadPublish10
    \/ ChunkUpdate
    \/ ChunkPublish10
    \/ ChunkSplit
    \/ ChunkPublish20
    \/ EmbedAdd
    \/ EmbedPublish
    \/ CompleteUpdate
    \/ CompleteDelete
    \/ CompletePublish
    \/ FailUpdate
    \/ FailPublish

SpecDelete == InitDelete /\ [][NextDelete]_vars

----------------------------------------------------------------------------
(* Progress Relay: document_progress.event_generator, and the Progress Broker *)

\* Documents whose progress channel connections subscribe to.
RelayDocs == {"d1", "d2"}

\* The document being processed: the one whose channel gets messages.
PublishDocs == {"d1"}

\* Values of the done key of a published JSON object.
DoneValues == {"true", "false", "missing"}

\* The n-th message put on a channel: the text of a JSON object, or a text that
\* is not JSON.
Text(json, n, done) == [json |-> json, n |-> n, done |-> done]

Undecodable == [n |-> 0, done |-> "error"]

\* json.loads(raw): the object, or an exception.
JsonLoads(raw) == IF raw.json THEN [n |-> raw.n, done |-> raw.done] ELSE Undecodable

\* json.dumps(data)
JsonDumps(data) == Text(TRUE, data.n, data.done)

\* A relay that never looks at the done key.
DoneFlag_Ignored(data) == FALSE

\* event_generator, 104: data.get("done", False)
DoneFlag(data) == data.done = "true"

ProgressEvent(data) == [event |-> "progress", data |-> JsonDumps(data)]
HeartbeatEvent == [event |-> "heartbeat", data |-> Text(FALSE, 0, "missing")]
ErrorEvent == [event |-> "error", data |-> Text(TRUE, 0, "missing")]

\* A relay whose stream ends when a pull times out.
AfterTimeout_Break == "closed"

\* event_generator, 107-108: after the heartbeat the while loop goes on.
AfterTimeout == "pull"

\* A relay that goes on pulling after it reported an error.
AfterError_Continue == "pull"

\* event_generator, 109-114: after the error event, break.
AfterError == "closed"

\* A generator that leaves its loop without leaving the subscription's scope.
Goto_Leaking(stream, pc, why) ==
    [stream EXCEPT !.pc = pc,
                   !.why = IF pc = "pull" THEN stream.why ELSE why]

\* The position pc of the generator after an iteration; leaving the loop leaves
\* the async with block (94), which releases the subscription.
Goto(stream, pc, why) ==
    [stream EXCEPT !.pc = pc, !.open = (pc = "pull"),
                   !.why = IF pc = "pull" THEN stream.why ELSE why]

\* A broker whose subscribers compete: each message goes to one of them.
Deliver_Competing(streams, d, raw) ==
    LET subs == {k \in Connections : streams[k].open /\ streams[k].document_id = d}
    IN  [k \in Connections |->
            IF subs # {} /\ k = CHOOSE x \in subs : TRUE
            THEN [streams[k] EXCEPT !.inbox = Append(@, raw)]
            ELSE streams[k]]

\* EventBrokerPort.publish: the message goes to every subscription open on the
\* channel, after the messages it still holds.
Deliver(streams, d, raw) ==
    [k \in Connections |->
        IF streams[k].open /\ streams[k].document_id = d
        THEN [streams[k] EXCEPT !.inbox = Append(@, raw)]
        ELSE streams[k]]

NumPublished == Len(published["d1"]) + Len(published["d2"])

\* Something publishes a message on the progress channel of a document.
BrokerPublish ==
    /\ NumPublished < MaxMessages
    /\ \E d \in PublishDocs, json \in BOOLEAN, done \in DoneValues :
        /\ ~json => done = "missing"
        /\ LET raw == Text(json, NumPublished + 1, done) IN
             /\ published' = [published EXCEPT ![d] = Append(@, raw)]
             /\ relay' = Deliver(relay, d, raw)
    /\ UNCHANGED <<docs, blobs, queue, index, w, delivered, hist, up, calls, del, agent, pool>>

\* A broker that hands a new subscription the channel's history.
Subscribed_Replay(d) == published[d]

\* EventBrokerPort.subscribe: a new subscription holds nothing; what was
\* published before it was opened is not kept for it.
Subscribed(d) == <<>>

\* event_generator, 92-94: the client connected; the subscription is opened.
\* since is the number of messages the channel had carried by then.
RelayOpen(k) ==
    /\ relay[k].pc = "idle"
    /\ \E d \in RelayDocs :
         relay' = [relay EXCEPT ![k] = [NoStream EXCEPT !.pc = "pull", !.open = TRUE,
                                                       !.document_id = d,
                                                       !.inbox = Subscribed(d),
                                                       !.since = Len(published[d])]]
    /\ UNCHANGED <<docs, blobs, queue, index, published, w, delivered, hist, up,
                   calls, del, agent, pool>>

\* event_generator, 96-105: the pull returned a message; decode, forward, test done.
RelayReceive(k) ==
    /\ relay[k].pc = "pull"
    /\ relay[k].inbox # <<>>
    /\ LET raw == Head(relay[k].inbox)
           data == JsonLoads(raw)
           got == [relay[k] EXCEPT !.inbox = Tail(@), !.pulled = Append(@, raw)]
       IN  relay' = [relay EXCEPT ![k] =
              IF data = Undecodable
              THEN Goto([got EXCEPT !.out = Append(@, ErrorEvent)], AfterError, "error")
              ELSE Goto([got EXCEPT !.out = Append(@, ProgressEvent(data))],
                        IF DoneFlag(data) THEN "closed" ELSE "pull", "done")]
    /\ UNCHANGED <<docs, blobs, queue, index, published, w, delivered, hist, up,
                   calls, del, agent, pool>>

RECURSIVE SumTimeouts(_)
SumTimeouts(ks) ==
    IF ks = {} THEN 0
    ELSE LET k == CHOOSE x \in ks : TRUE IN relay[k].timeouts + SumTimeouts(ks \ {k})

\* Pulls that have timed out so far, over all connections.
NumTimeouts == SumTimeouts(Connections)

\* event_generator, 97-100 and 107-108: no message within HEARTBEAT_INTERVAL.
RelayTimeout(k) ==
    /\ relay[k].pc = "pull"
    /\ relay[k].inbox = <<>>
    /\ NumTimeouts < MaxHeartbeats
    /\ relay' = [relay EXCEPT ![k] =
          Goto([relay[k] EXCEPT !.out = Append(@, HeartbeatEvent),
                                !.timeouts = @ + 1],
               AfterTimeout, "timeout")]
    /\ UNCHANGED <<docs, blobs, queue, index, published, w, delivered, hist, up,
                   calls, del, agent, pool>>

\* event_generator, 109-114: the pull raised something else than the timeout.
RelayPullError(k) ==
    /\ relay[k].pc = "pull"
    /\ relay' = [relay EXCEPT ![k] =
          Goto([relay[k] EXCEPT !.out = Append(@, ErrorEvent)], AfterError, "error")]
    /\ UNCHANGED <<docs, blobs, queue, index, published, w, delivered, hist, up,
                   calls, del, agent, pool>>

\* The client went away: the generator is cancelled where it waits.
RelayDisconnect(k) ==
    /\ relay[k].pc = "pull"
    /\ relay' = [relay EXCEPT ![k] = Goto(relay[k], "closed", "disconnect")]
    /\ UNCHANGED <<docs, blobs, queue, index, published, w, delivered, hist, up,
                   calls, del, agent, pool>>

InitRelay ==
    /\ docs = [d \in DocIds |-> NoDoc]
    /\ blobs = <<>>
    /\ queue = {}
    /\ index = [d \in DocIds |-> 0]
    /\ published = [d \in DocIds |-> <<>>]
    /\ w = Idle
    /\ delivered = [d \in DocIds |-> 0]
    /\ hist = [d \in DocIds |-> <<>>]
    /\ up = [u \in Callers |-> NoUpload]
    /\ calls = 0
    /\ del = NoDelete
    /\ relay = [k \in Connections |-> NoStream]
    /\ agent = NoAgent
    /\ pool = NoPool

NextRelay ==
    \/ BrokerPublish
    \/ \E k \in Connections : RelayOpen(k)
    \/ \E k \in Connections : RelayReceive(k)
    \/ \E k \in Connections : RelayTimeout(k)
    \/ \E k \in Connections : RelayPullError(k)
    \/ \E k \in Connections : RelayDisconnect(k)

SpecRelay == InitRelay /\ [][NextRelay]_vars

----------------------------------------------------------------------------
(* Ingestion end to end: an upload of one caller and the worker processing
   the job it enqueues, delivered once. *)

\* The stores are empty; the caller's earlier calls were turned away by
\* validation and left nothing, one call is still to come.
InitIngest ==
    /\ docs = [d \in DocIds |-> NoDoc]
    /\ blobs = <<>>
    /\ queue = {}
    /\ index = [d \in DocIds |-> 0]
    /\ published = [d \in DocIds |-> <<>>]
    /\ w = Idle
    /\ delivered = [d \in DocIds |-> 0]
    /\ hist = [d \in DocIds |-> <<>>]
    /\ up = [u \in Callers |-> NoUpload]
    /\ calls = MaxUploads - 1
    /\ del = NoDelete
    /\ relay = [k \in Connections |-> NoStream]
    /\ agent = NoAgent
    /\ pool = NoPool

NextIngest ==
    \/ UploadBegin("u1")
    \/ UploadTotalPages("u1")
    \/ UploadStorage("u1")
    \/ UploadCreate("u1")
    \/ UploadEnqueue("u1")
    \/ StartAttempt
    \/ DownloadPublish0
    \/ DownloadGet
    \/ DownloadPublish10
    \/ ChunkUpdate
    \/ ChunkPublish10
    \/ ChunkSplit
    \/ ChunkPublish20
    \/ EmbedAdd
    \/ EmbedPublish
    \/ CompleteUpdate
    \/ CompleteDelete
    \/ CompletePublish
    \/ FailUpdate
    \/ FailPublish

SpecIngest == InitIngest /\ [][NextIngest]_vars

----------------------------------------------------------------------------
(* Properties of the Processing Pipeline, checked under Spec *)

AttemptOver == w.pc \in Ended

\* The document of the attempt in progress (or of the last one).
Doc == w.job.document_id

Last(seq) == seq[Len(seq)]

NonDecreasing(events) ==
    \A i \in 1 .. Len(events) - 1 : events[i].progress <= events[i + 1].progress

DoneEvents(events) == {i \in 1 .. Len(events) : events[i].done}

IsFailedEvent(e) == e.step = "failed"
IsProgressEvent(e) == ~IsFailedEvent(e)

IsEmpty(text) == text = NULL \/ text = ""

\* C1: processing the same job payload twice, the second attempt after the first
\* has finished and every collaborator available in both, leaves the Document in
\* the same terminal status after the second attempt as after the first.
C1_SameStatusAfterRedelivery ==
    \A d \in DocIds :
        (/\ Len(hist[d]) >= 2
         /\ ~hist[d][1].injected
         /\ ~hist[d][2].injected)
        => hist[d][2].status = hist[d][1].status

\* C2 (as claimed): every status change of a Document is queued -> vectorizing,
\* vectorizing -> completed or vectorizing -> failed.
C2_OnlyPipelineOrder ==
    [][\A d \in DocIds :
          docs'[d].status # docs[d].status
          => <<docs[d].status, docs'[d].status>> \in
                {<<QUEUED, VECTORIZING>>, <<VECTORIZING, COMPLETED>>,
                 <<VECTORIZING, FAILED>>}]_vars

\* C2 (amended): while a job has been delivered only once, vectorizing is written
\* only to a queued document and completed only to a vectorizing one; failed is
\* written to the document in whatever status the attempt had reached: queued,
\* vectorizing or completed.
C2_StatusChanges ==
    [][\A d \in DocIds :
          (delivered'[d] <= 1 /\ docs'[d].status # docs[d].status)
          => <<docs[d].status, docs'[d].status>> \in
                {<<QUEUED, VECTORIZING>>, <<VECTORIZING, COMPLETED>>,
                 <<QUEUED, FAILED>>, <<VECTORIZING, FAILED>>,
                 <<COMPLETED, FAILED>>}]_vars

\* A first attempt failed in the download stage: queued went to failed directly.
C2_Witness ==
    /\ AttemptOver
    /\ delivered[Doc] = 1
    /\ w.start = QUEUED
    /\ w.writes = <<FAILED>>
    /\ docs[Doc].status = FAILED

\* C3: with each job delivered once, completed and failed are terminal: once one
\* of them is the Document's status, no other status is written for it.
C3_TerminalStays ==
    [][\A d \in DocIds :
          (delivered'[d] <= 1 /\ docs[d].status \in {COMPLETED, FAILED})
          => docs'[d].status = docs[d].status]_vars

\* C4 (as claimed): the progress percentages an attempt publishes are
\* non-decreasing from the first event to the last, the terminal event included.
C4_AllNonDecreasing == NonDecreasing(AttemptEvents)

\* C4 (amended): the progress percentages an attempt publishes are non-decreasing
\* over all its events but the failed terminal event, which carries progress 0
\* whatever was published before it.
C4_NonDecreasingButFailed ==
    /\ NonDecreasing(SelectSeq(AttemptEvents, IsProgressEvent))
    /\ \A i \in 1 .. Len(AttemptEvents) :
          IsFailedEvent(AttemptEvents[i])
          => AttemptEvents[i].progress = 0 /\ i = Len(AttemptEvents)

\* An attempt that indexed two batches and then failed: progress rose, then 0.
C4_Witness ==
    /\ AttemptOver
    /\ Len(AttemptEvents) >= 7
    /\ IsFailedEvent(Last(AttemptEvents))
    /\ AttemptEvents[Len(AttemptEvents) - 1].progress > AttemptEvents[5].progress
    /\ AttemptEvents[5].progress > 20

\* C5: every attempt publishes exactly one event with done=true; it is the last
\* event of the attempt and its step is completed or failed.
C5_ExactlyOneDone ==
    AttemptOver
    => /\ DoneEvents(AttemptEvents) = {Len(AttemptEvents)}
       /\ Len(AttemptEvents) >= 1
       /\ Last(AttemptEvents).step \in {"completed", "failed"}

\* C6: the failure handler never raises: execute returns normally, and an
\* attempt that entered the handler leaves status failed and a terminal event.
C6_HandlerNeverRaises ==
    /\ w.pc # "raised"
    /\ (AttemptOver /\ w.failed)
       => /\ docs[Doc].status = FAILED
          /\ Len(AttemptEvents) >= 1
          /\ Last(AttemptEvents).done

\* C7: when a stage raises e, the attempt ends with status failed, error_message
\* the text of e, and, published last, the event failed / 0 / text of e / done.
C7_FailureRecorded ==
    (AttemptOver /\ w.failed)
    => /\ docs[Doc].status = FAILED
       /\ docs[Doc].error_message = w.error
       /\ Len(w.writes) >= 1
       /\ Last(w.writes) = FAILED
       /\ Len(AttemptEvents) >= 1
       /\ Last(AttemptEvents) = Event(Doc, "failed", 0, <<w.error>>, TRUE)

\* The number of batches of at most BATCH_SIZE chunks that hold n chunks.
BatchesFor(n) ==
    CHOOSE k \in 0 .. n : k * BATCH_SIZE >= n /\ (k = 0 \/ (k - 1) * BATCH_SIZE < n)

StepAndProgress(e) == <<e.step, e.progress, e.done>>

C9_MessageIffFailed ==
    \A d \in DocIds :
        docs[d] # NoDoc => (~IsEmpty(docs[d].error_message) <=> docs[d].status = FAILED)

----------------------------------------------------------------------------
(* Properties of the Upload Pipeline, checked under SpecUpload *)

\* No Document row, no blob and no job carries the document id.
NothingCreated(d) ==
    /\ docs[d] = NoDoc
    /\ \A k \in DOMAIN blobs : k[2] # d
    /\ \A j \in queue : j.document_id # d

\* C10: a call with a content type other than PDF fails with InvalidFileTypeError
\* and a call with a PDF larger than MAX_UPLOAD_SIZE_BYTES fails with
\* FileTooLargeError; neither creates a Document, a blob or a job.
C10_ValidationRejects ==
    \A u \in Callers :
        up[u].pc # "idle"
        => /\ up[u].content_type # PDF
              => /\ up[u].pc = "failed"
                 /\ up[u].error.type = "InvalidFileTypeError"
                 /\ NothingCreated(up[u].document_id)
           /\ (up[u].content_type = PDF /\ up[u].size_bytes > MAX_UPLOAD_SIZE_BYTES)
              => /\ up[u].pc = "failed"
                 /\ up[u].error.type = "FileTooLargeError"
                 /\ NothingCreated(up[u].document_id)

\* One caller's oversized PDF and the other caller's text file were both rejected.
C10_Witness ==
    /\ up["u1"].pc = "failed"
    /\ up["u1"].error.type = "FileTooLargeError"
    /\ up["u1"].size_bytes > MAX_UPLOAD_SIZE_BYTES
    /\ up["u2"].pc = "failed"
    /\ up["u2"].error.type = "InvalidFileTypeError"

\* The call of caller u has just left the quota step without a collaborator error.
QuotaDecided(u) ==
    /\ up[u].pc = "total_pages"
    /\ up'[u].pc # "total_pages"
    /\ up'[u].error.type # "Exception"

LimitError(current_total, incoming) ==
    [type |-> "PageLimitExceededError",
     args |-> <<current_total, incoming, MAX_PAGES_PER_COMPANY>>]

\* C11: a call is rejected with PageLimitExceededError(current_total, incoming,
\* max) exactly when the tenant's total read from the Document Store plus the
\* incoming page count is above MAX_PAGES_PER_COMPANY; a sum equal to the maximum
\* is accepted; a rejected call creates no Document, no blob and no job.
C11_QuotaRejects ==
    [][\A u \in Callers :
          /\ QuotaDecided(u)
             => LET total == GetTotalPages(docs, up[u].company_id)
                    incoming == up[u].num_pages
                IN  IF total + incoming > MAX_PAGES_PER_COMPANY
                    THEN /\ up'[u].pc = "failed"
                         /\ up'[u].error = LimitError(total, incoming)
                    ELSE /\ up'[u].pc = "storage_upload"
                         /\ up'[u].error = NoError
          /\ up'[u].error.type = "PageLimitExceededError"
             => NothingCreated(up[u].document_id)']_vars

\* A tenant holding MaxPagesInFile pages was refused as many again.
C11_Witness ==
    \E u \in Callers :
        /\ up[u].pc = "failed"
        /\ up[u].error = LimitError(MaxPagesInFile, MaxPagesInFile)
        /\ GetTotalPages(docs, up[u].company_id) = MaxPagesInFile

\* The Documents, blobs and jobs that carry document id d.
JobsOf(d) == {j \in queue : j.document_id = d}
BlobsOf(d) == {k \in DOMAIN blobs : k[2] = d}

\* C12: a successful upload uploads the blob, then creates the Document, then
\* enqueues: it leaves exactly one Document, status queued, with the Blob Store's
\* key and the analyzer's page count, and exactly one job carrying that
\* document_id, company_id and key; no job is in the queue before its Document
\* row is persisted, and no row is persisted before its blob is stored.
C12_UploadOrder ==
    /\ \A u \in Callers :
          up[u].pc = "returned"
          => LET d == up[u].document_id
                 k == StorageKey(up[u].company_id, d)
             IN  /\ up[u].gcs_path = k
                 /\ docs[d] = Row(up[u].company_id, "a.pdf", k, up[u].num_pages)
                 /\ docs[d].status = QUEUED
                 /\ BlobsOf(d) = {k}
                 /\ JobsOf(d) = {Payload(d, up[u].company_id, k)}
    /\ \A j \in queue :
          /\ docs[j.document_id] # NoDoc
          /\ docs[j.document_id].gcs_path = j.gcs_path
          /\ docs[j.document_id].company_id = j.company_id
    /\ \A d \in DocIds : docs[d] # NoDoc => docs[d].gcs_path \in DOMAIN blobs

\* Both callers' uploads succeeded.
C12_Witness ==
    /\ \A u \in Callers : up[u].pc = "returned"
    /\ Cardinality(queue) = 2
    /\ Cardinality({d \in DocIds : docs[d] # NoDoc}) = 2

\* The call of caller u ended because the collaborator called at step pc raised.
FailedAt(u, pc) ==
    /\ up[u].pc = "failed"
    /\ up[u].error.type = "Exception"
    /\ up[u].at = pc

\* Document d has a queued row and its blob, and no job, and the call that
\* created it is over: nothing will process it.
Orphan(d) ==
    /\ docs[d] # NoDoc
    /\ docs[d].status = QUEUED
    /\ docs[d].gcs_path \in DOMAIN blobs
    /\ JobsOf(d) = {}
    /\ \A u \in Callers : up[u].document_id = d => up[u].pc = "failed"

\* C13 (as claimed): when the Blob Store, the Job Queue or the Document Store is
\* unavailable during an upload, the call fails and no Document row of that
\* upload exists afterwards.
C13_NoRowAfterFailure ==
    \A u \in Callers :
        (up[u].pc = "failed" /\ up[u].error.type = "Exception")
        => docs[up[u].document_id] = NoDoc

\* C13 (amended): when the Document Store or the Blob Store is unavailable (quota
\* read, blob upload or row creation raises) the call fails and no Document row
\* of that upload exists; when the Job Queue is unavailable the call fails too,
\* but the row created just before stays, queued and without a job.
C13_RowOnlyAfterEnqueueFailure ==
    \A u \in Callers :
        /\ \A pc \in {"total_pages", "storage_upload", "repo_create"} :
              FailedAt(u, pc) => /\ docs[up[u].document_id] = NoDoc
                                 /\ JobsOf(up[u].document_id) = {}
        /\ FailedAt(u, "enqueue") => Orphan(up[u].document_id)
        /\ (up[u].pc = "failed" /\ up[u].error.type = "Exception")
           => up[u].at \in {"total_pages", "storage_upload", "repo_create", "enqueue"}

\* One call failed at row creation and left no row; another failed at enqueue
\* and left its row.
C13_Witness ==
    /\ FailedAt("u1", "repo_create")
    /\ docs[up["u1"].document_id] = NoDoc
    /\ FailedAt("u2", "enqueue")
    /\ docs[up["u2"].document_id] # NoDoc

\* C14: when the blob upload fails the call fails, no Document row is created
\* and no job is enqueued (and the Blob Store holds nothing under the key).
C14_BlobFailureLeavesNothing ==
    \A u \in Callers :
        FailedAt(u, "storage_upload") => NothingCreated(up[u].document_id)

\* A blob upload failed while the tenant already had a document.
C14_Witness ==
    \E u \in Callers :
        /\ FailedAt(u, "storage_upload")
        /\ GetTotalPages(docs, up[u].company_id) > 0

\* C15: when enqueue fails after the Document was persisted, the Document stays
\* queued, its blob stays and no job for it is in the queue; no later step of the
\* Upload Pipeline enqueues it, changes it or removes it.
C15_OrphanStays ==
    [][/\ \A u \in Callers : FailedAt(u, "enqueue")' => Orphan(up[u].document_id)'
       /\ \A d \in DocIds :
             Orphan(d) => /\ Orphan(d)'
                          /\ docs'[d] = docs[d]
                          /\ blobs'[docs[d].gcs_path] = blobs[docs[d].gcs_path]]_vars

\* An orphan of the first call is still there after a second call of the same
\* tenant went through.
C15_Witness ==
    \E d \in DocIds, u \in Callers :
        /\ Orphan(d)
        /\ up[u].pc = "returned"
        /\ up[u].document_id # d
        /\ up[u].company_id = docs[d].company_id

----------------------------------------------------------------------------
(* Properties of Delete, checked under SpecDelete *)

\* The last delete call returned successfully.
Deleted == del.pc = "returned"

\* C16: once execute(document_id, company_id) has returned successfully, the
\* Vector Index holds no chunk tagged with the document_id, the Document Store
\* lookup finds nothing and the blob no longer exists.
C16_DeleteComplete ==
    Deleted
    => /\ index[del.document_id] = 0
       /\ GetById(docs, del.document_id, del.company_id) = NoDoc
       /\ del.document.gcs_path \notin DOMAIN blobs

\* The step is the lookup of a new delete call, and the Document Store answered.
LookedUp == del'.n = del.n + 1 /\ del'.error.type # "Exception"

\* C17: a delete whose document_id does not exist, or exists under another
\* tenant, fails with DocumentNotFoundError (status 404) and removes nothing: no
\* row, no blob, no vector entry, no job; a delete of the tenant's own document
\* does not fail so.
C17_NotFoundRemovesNothing ==
    [][LookedUp =>
         LET d == del'.document_id
             c == del'.company_id
         IN  IF docs[d] = NoDoc \/ docs[d].company_id # c
             THEN /\ del'.pc = "failed"
                  /\ del'.error.type = "DocumentNotFoundError"
                  /\ DeleteStatusCode(del'.error) = 404
                  /\ UNCHANGED <<docs, blobs, index, queue>>
             ELSE /\ del'.pc = "vector_delete"
                  /\ del'.error = NoError
                  /\ del'.document = docs[d]]_vars

\* Tenant t2 asked to delete d1 of tenant t1, which had been indexed: refused,
\* and d1 is still there with its vector entries.
C17_Witness ==
    /\ del.pc = "failed"
    /\ del.error.type = "DocumentNotFoundError"
    /\ del.document_id = "d1"
    /\ del.company_id = "t2"
    /\ docs["d1"] # NoDoc
    /\ index["d1"] > 0

\* The delete call in progress (or the last one) looked up a completed document.
OfCompleted == del.document # NoDoc /\ del.document.status = COMPLETED

----------------------------------------------------------------------------
(* Properties of the Progress Relay, checked under SpecRelay *)

IsProgressOut(e) == e.event = "progress"
IsHeartbeatOut(e) == e.event = "heartbeat"

\* The progress events connection k has sent to its client, oldest first.
Forwarded(k) == SelectSeq(relay[k].out, IsProgressOut)

\* The message is a JSON object whose done key is true.
IsTerminal(raw) == raw.json /\ raw.done = "true"

\* C19: a connection forwards the messages it receives on its document's channel
\* as progress events, in the order received (which is the order published); it
\* stops right after forwarding the first message whose done flag is true, so
\* that event is the last thing it sends; after a message whose done flag is
\* false or missing it keeps looping.
C19_ForwardUntilDone ==
    \A k \in Connections :
        LET s == relay[k]
            P == s.pulled
            F == Forwarded(k)
        IN  /\ \A i \in 1 .. Len(P) - 1 : P[i].json /\ ~IsTerminal(P[i])
            /\ \A i \in 1 .. Len(P) - 1 : P[i].n < P[i + 1].n
            /\ \A i \in 1 .. Len(P) : P[i] \in {published[s.document_id][j] :
                                                   j \in 1 .. Len(published[s.document_id])}
            /\ Len(F) = Cardinality({i \in 1 .. Len(P) : P[i].json})
            /\ \A i \in 1 .. Len(F) : JsonLoads(F[i].data) = JsonLoads(P[i])
            /\ (Len(P) > 0 /\ IsTerminal(Last(P)))
               => /\ s.pc = "closed"
                  /\ ~s.open
                  /\ s.why = "done"
                  /\ Last(s.out) = ProgressEvent(JsonLoads(Last(P)))
            /\ (Len(P) > 0 /\ Last(P).json /\ ~IsTerminal(Last(P))
                  /\ s.why \notin {"error", "disconnect"})
               => s.pc = "pull" /\ s.open
            /\ s.why = "done" => Len(P) > 0 /\ IsTerminal(Last(P))

\* A connection forwarded a message without a done key, then one with done
\* true, and ended there.
C19_Witness ==
    \E k \in Connections :
        /\ relay[k].pc = "closed"
        /\ relay[k].why = "done"
        /\ Len(Forwarded(k)) = 2
        /\ relay[k].pulled[1].done = "missing"
        /\ relay[k].pulled[1].json

\* C20: a pull that times out makes the relay emit exactly one heartbeat event
\* and go on looping with the same subscription open and nothing of it lost; a
\* heartbeat is emitted for no other reason; and every iteration of the loop
\* receives a message, times out or ends the stream on an error.
C20_TimeoutKeepsLooping ==
    [][\A k \in Connections :
          /\ relay'[k].timeouts = relay[k].timeouts + 1
             => /\ relay[k].pc = "pull" /\ relay[k].open
                /\ relay[k].inbox = <<>>
                /\ relay'[k] = [relay[k] EXCEPT !.out = Append(@, HeartbeatEvent),
                                                !.timeouts = @ + 1]
                /\ relay'[k].pc = "pull" /\ relay'[k].open
          /\ Len(SelectSeq(relay'[k].out, IsHeartbeatOut)) = relay'[k].timeouts
          /\ (relay[k].pc = "pull" /\ relay'[k].out # relay[k].out)
             => \/ /\ relay[k].inbox # <<>>
                   /\ relay'[k].pulled = Append(relay[k].pulled, Head(relay[k].inbox))
                \/ relay'[k].timeouts = relay[k].timeouts + 1
                \/ relay'[k].why = "error"]_vars

\* A connection sent a heartbeat and afterwards forwarded a message.
C20_Witness ==
    \E k \in Connections :
        /\ relay[k].timeouts = 1
        /\ Len(relay[k].out) = 2
        /\ IsHeartbeatOut(relay[k].out[1])
        /\ IsProgressOut(relay[k].out[2])

IsErrorOut(e) == e.event = "error"

\* C21: when the pull raises something else than the timeout, or the pulled
\* message does not decode, the relay emits exactly one error event and stops:
\* the error event is the last event of the connection, and a connection whose
\* stream has ended sends nothing more.
C21_ErrorEndsStream ==
    [][\A k \in Connections :
          LET s == relay[k]
              t == relay'[k]
          IN  /\ (s.pc = "pull" /\ s.inbox # <<>> /\ ~Head(s.inbox).json
                    /\ t.pulled # s.pulled)
                 => t.out = Append(s.out, ErrorEvent)
              /\ Len(SelectSeq(t.out, IsErrorOut)) > Len(SelectSeq(s.out, IsErrorOut))
                 => /\ s.pc = "pull"
                    /\ t.out = Append(s.out, ErrorEvent)
                    /\ t.pc = "closed"
                    /\ t.why = "error"
              /\ t.why = "error"
                 => /\ t.pc = "closed"
                    /\ Len(SelectSeq(t.out, IsErrorOut)) = 1
                    /\ IsErrorOut(Last(t.out))
              /\ s.pc = "closed" => t.out = s.out /\ t.pc = "closed"]_vars

\* A connection forwarded a message, then pulled one that is not JSON: its
\* stream ended with the error event.
C21_Witness ==
    \E k \in Connections :
        /\ relay[k].why = "error"
        /\ Len(relay[k].pulled) = 2
        /\ ~Last(relay[k].pulled).json
        /\ Len(relay[k].out) = 2
        /\ IsProgressOut(relay[k].out[1])

\* The loop of connection k has ended.
LoopEnded(k) == relay[k].pc = "closed"

\* C22: the subscription a connection opened is released on every exit path of
\* its loop (terminal event, error event, client disconnect): no subscription is
\* open for a connection whose loop has ended, a subscription is open while the
\* loop runs, and nothing is delivered to a connection after its loop ended.
C22_SubscriptionReleased ==
    [][\A k \in Connections :
          /\ LoopEnded(k)' => /\ ~relay'[k].open
                              /\ relay'[k].why \in {"done", "error", "disconnect"}
          /\ relay'[k].pc = "pull" => relay'[k].open
          /\ LoopEnded(k) => relay'[k].inbox = relay[k].inbox]_vars

\* One connection ended on a client disconnect and the other on an error; a
\* message published on their channel afterwards reached neither.
C22_Witness ==
    /\ relay["k1"].why = "disconnect"
    /\ relay["k2"].why = "error"
    /\ \A k \in Connections :
          /\ LoopEnded(k)
          /\ relay[k].document_id = "d1"
          /\ relay[k].inbox = <<>>
          /\ relay[k].pulled = <<>>
    /\ published["d1"] # <<>>

\* What connection k has been handed by the broker so far, in order.
Received(k) == relay[k].pulled \o relay[k].inbox

\* The messages published on d's channel after the first n.
PublishedAfter(d, n) == SubSeq(published[d], n + 1, Len(published[d]))

IsPrefix(a, b) == Len(a) <= Len(b) /\ a = SubSeq(b, 1, Len(a))

\* C23: every message published on a document's channel is delivered, once and
\* in publication order, to every connection subscribed to that channel at the
\* time of publication: what an open subscription has been handed is exactly
\* what was published since it was opened, whatever other connections hold.
C23_FanOut ==
    \A k \in Connections :
        /\ relay[k].open
           => Received(k) = PublishedAfter(relay[k].document_id, relay[k].since)
        /\ LoopEnded(k)
           => IsPrefix(relay[k].pulled,
                       PublishedAfter(relay[k].document_id, relay[k].since))

\* Two connections on d1's channel, the second opened after the first message:
\* the first holds both messages, the second the second one only.
C23_Witness ==
    /\ \A k \in Connections : relay[k].open /\ relay[k].document_id = "d1"
    /\ Len(published["d1"]) = 2
    /\ Received("k1") = published["d1"]
    /\ Received("k2") = <<published["d1"][2]>>

\* Connection k was opened after a terminal message had been published on its
\* channel, and nothing has been published on the channel since.
OpenedAfterTerminal(k) ==
    /\ relay[k].pc # "idle"
    /\ relay[k].since = Len(published[relay[k].document_id])
    /\ \E i \in 1 .. relay[k].since : IsTerminal(published[relay[k].document_id][i])

\* C24: a connection that subscribes after the terminal event of a document was
\* published never receives that event (nothing published before it subscribed
\* reaches it); while nothing more is published it forwards no progress event,
\* emits only heartbeats, and its loop ends only on an error or a disconnect.
C24_NoReplay ==
    \A k \in Connections :
        /\ relay[k].pc # "idle"
           => \A i \in 1 .. Len(Received(k)) : Received(k)[i].n > relay[k].since
        /\ OpenedAfterTerminal(k)
           => /\ Received(k) = <<>>
              /\ Forwarded(k) = <<>>
              /\ relay[k].why # "done"
              /\ relay[k].why \notin {"error", "disconnect"}
                 => /\ relay[k].pc = "pull"
                    /\ \A i \in 1 .. Len(relay[k].out) : IsHeartbeatOut(relay[k].out[i])

\* A connection opened after the terminal message has sent one heartbeat and is
\* still pulling.
C24_Witness ==
    \E k \in Connections :
        /\ OpenedAfterTerminal(k)
        /\ relay[k].pc = "pull"
        /\ Len(relay[k].out) = 1
        /\ IsHeartbeatOut(relay[k].out[1])

----------------------------------------------------------------------------
(* Properties of the Document row, checked under SpecIngest *)

\* The fields of a row that only its creation sets.
Identity(row) == <<row.company_id, row.filename, row.gcs_path, row.num_pages>>

\* C25: every Document whose status is not queued has a non-empty storage key:
\* a row is created with the key the Blob Store returned for its blob, and no
\* status update changes or clears the key, company_id, filename or num_pages.
C25_StorageKeyKept ==
    [][\A d \in DocIds :
          /\ (docs'[d] # NoDoc /\ docs'[d].status # QUEUED)
             => docs'[d].gcs_path # <<>>
          /\ (docs[d] = NoDoc /\ docs'[d] # NoDoc)
             => /\ docs'[d].gcs_path = StorageKey(docs'[d].company_id, d)
                /\ docs'[d].gcs_path \in DOMAIN blobs
                /\ docs'[d].status = QUEUED
          /\ (docs[d] # NoDoc /\ docs'[d] # NoDoc)
             => Identity(docs'[d]) = Identity(docs[d])]_vars

\* An uploaded document went through vectorizing and completed to failed, its
\* key still the one of the upload although the blob is gone.
C25_Witness ==
    \E d \in DocIds :
        /\ docs[d] # NoDoc
        /\ docs[d].status = FAILED
        /\ w.writes = <<VECTORIZING, COMPLETED, FAILED>>
        /\ Doc = d
        /\ docs[d].gcs_path = StorageKey(docs[d].company_id, d)
        /\ docs[d].gcs_path \notin DOMAIN blobs

----------------------------------------------------------------------------
(* The quota race, checked under SpecUpload *)

\* The step persists the Document of caller u's call.
Persists(u) ==
    /\ up[u].pc = "repo_create"
    /\ docs[up[u].document_id] = NoDoc
    /\ docs'[up[u].document_id] # NoDoc

\* C26: the quota check is not atomic. Every call that persists passed the
\* check against the total it read; the tenant's total goes above
\* MAX_PAGES_PER_COMPANY only when the persisting call's read is stale, that is
\* when another upload of the tenant persisted between its read and its own
\* persist (two overlapping uploads that both passed).
C26_QuotaRace ==
    [][\A u \in Callers :
          Persists(u)
          => LET c == up[u].company_id IN
             /\ up[u].current_total + up[u].num_pages <= MAX_PAGES_PER_COMPANY
             /\ GetTotalPages(docs', c) = GetTotalPages(docs, c) + up[u].num_pages
             /\ GetTotalPages(docs', c) > MAX_PAGES_PER_COMPANY
                => up[u].current_total < GetTotalPages(docs, c)]_vars

\* Two overlapping uploads of one tenant both read total 0, both passed and
\* both returned: the tenant holds more pages than MAX_PAGES_PER_COMPANY.
C26_Witness ==
    /\ \A u \in Callers : /\ up[u].pc = "returned"
                           /\ up[u].company_id = "t1"
                           /\ up[u].current_total = 0
    /\ GetTotalPages(docs, "t1") > MAX_PAGES_PER_COMPANY

----------------------------------------------------------------------------
(* Job timeout: the worker of worker/settings.py cancels a running attempt *)

\* What the cancelled attempt carries: asyncio.CancelledError.
CancelledError == "CancelledError"

\* pcs at which an attempt waits in an await.
Running ==
    {"download_publish0", "download_get", "download_publish10", "chunk_update",
     "chunk_publish10", "chunk_split", "chunk_publish20", "embed_add",
     "embed_publish", "complete_update", "complete_delete", "complete_publish",
     "fail_update", "fail_publish"}

\* A build in which the handler of execute also catches the cancellation.
AfterCancel_Handled == HandlerPc

\* CancelledError derives from BaseException: `except Exception` (execute, 55)
\* lets it through and execute is left without calling _fail.
AfterCancel == "cancelled"

\* job_timeout expires (settings.py:49): the attempt is cancelled at the await
\* it is waiting in.
Cancel ==
    /\ w.pc \in Running
    /\ w.error # CancelledError
    /\ w' = [w EXCEPT !.pc = AfterCancel, !.error = CancelledError]
    /\ UNCHANGED <<docs, blobs, queue, index, published, delivered, hist, up, calls, del, relay,
                 agent, pool>>

\* At-least-once delivery: the job of a cancelled attempt is handed out again.
RedeliverCancelled ==
    /\ w.pc = "cancelled"
    /\ delivered[w.job.document_id] < MaxDeliveries
    /\ w.job \notin queue
    /\ queue' = queue \cup {w.job}
    /\ w' = [w EXCEPT !.pc = "idle"]
    /\ UNCHANGED <<docs, blobs, index, published, delivered, hist, up, calls, del, relay,
                 agent, pool>>

NextTimeout ==
    \/ StartAttempt
    \/ Redeliver
    \/ DownloadPublish0
    \/ DownloadGet
    \/ DownloadPublish10
    \/ ChunkUpdate
    \/ ChunkPublish10
    \/ ChunkSplit
    \/ ChunkPublish20
    \/ EmbedAdd
    \/ EmbedPublish
    \/ CompleteUpdate
    \/ CompleteDelete
    \/ CompletePublish
    \/ FailUpdate
    \/ FailPublish
    \/ Cancel
    \/ RedeliverCancelled

SpecTimeout == Init /\ [][NextTimeout]_vars

\* The attempt was cancelled and its job has not been delivered again.
Cancelled == w.error = CancelledError

\* The last status the attempt wrote is vectorizing.
WroteVectorizing == w.writes = <<VECTORIZING>>

\* C27: an attempt cancelled from outside after it wrote vectorizing does not
\* run the failure handler: the Document is in vectorizing, the attempt's channel
\* holds no terminal event, and neither changes until the job is delivered again.
C27_CancelledStaysVectorizing ==
    /\ []((Cancelled /\ WroteVectorizing)
           => /\ w.pc \in {"cancelled", "idle"}
              /\ docs[Doc].status = VECTORIZING
              /\ \A i \in 1 .. Len(published[Doc]) : ~published[Doc][i].done)
    /\ [][Cancelled
           => /\ docs' = docs
              /\ published' = published \/ w'.pc = "download_publish0"]_vars

\* An attempt was cancelled while it indexed its second batch; the Document is
\* in vectorizing and the job cannot be delivered again.
C27_Witness ==
    /\ Cancelled /\ WroteVectorizing
    /\ w.pc = "cancelled"
    /\ w.batch_idx = 1
    /\ index[Doc] = BATCH_SIZE
    /\ docs[Doc].status = VECTORIZING
    /\ delivered[Doc] = MaxDeliveries

----------------------------------------------------------------------------
(* Order of the terminal write and the terminal event, checked under Spec *)

\* The step publishes an event on d's channel.
PublishesOn(d) ==
    /\ published'[d] # published[d]
    /\ published'[d] # <<>>

\* C28: a terminal event is published only after the matching status was
\* written.  When an event with step completed and done=true is published the
\* Document has status completed and its blob is gone; when an event with step
\* failed and done=true is published the Document has status failed; no other
\* event carries done=true.
C28_TerminalAfterWrite ==
    [][\A d \in DocIds :
          PublishesOn(d)
          => LET e == Last(published'[d]) IN
             /\ e.done => e.step \in {"completed", "failed"}
             /\ (e.done /\ e.step = "completed")
                => /\ docs[d].status = COMPLETED
                   /\ docs'[d].status = COMPLETED
                   /\ Last(w.writes) = COMPLETED
                   /\ docs[d].gcs_path \notin DOMAIN blobs
             /\ (e.done /\ e.step = "failed")
                => /\ docs[d].status = FAILED
                   /\ docs'[d].status = FAILED
                   /\ Last(w.writes) = FAILED]_vars

\* The first attempt published completed; the job was delivered again, the
\* second attempt found no blob and published failed after writing failed.
C28_Witness ==
    /\ Len(hist["d1"]) = 2
    /\ hist["d1"][1].status = COMPLETED
    /\ hist["d1"][1].result = "returned"
    /\ published["d1"] # <<>>
    /\ Last(published["d1"]).done
    /\ Last(published["d1"]).step = "failed"
    /\ docs["d1"].status = FAILED

----------------------------------------------------------------------------
(* A failing batch, checked under Spec *)

\* The step in which add_documents raises for batch w.batch_idx + 1.
AddFails == w.pc = "embed_add" /\ w'.pc = HandlerPc

\* Chunks of the first n batches of a document of total_chunks chunks.
ChunksIn(n, total_chunks) == Min(n * BATCH_SIZE, total_chunks)

\* The attempt published the event that closes _chunk (87-90).
ChunkClosed ==
    \E i \in 1 .. Len(published[Doc]) :
        published[Doc][i].message = <<"chunk(s) cree(s)", w.chunks>>

\* The first attempt on a document failed in add_documents for batch
\* w.batch_idx + 1: the stage before _embed was closed, a batch was left to
\* index and the index holds exactly the batches whose progress was published.
AddFailed ==
    /\ w.failed
    /\ delivered[Doc] = 1
    /\ ChunkClosed
    /\ w.batch_idx < NumBatches(w.chunks)
    /\ index[Doc] = ChunksIn(w.batch_idx, w.chunks)

\* After the failure the batches indexed so far stay, no batch is submitted, no
\* event but the failed one is published and completed is not written.
AbortsQuietly ==
    [][(w.pc \in {"fail_update", "fail_publish"} \/ AddFails)
         => /\ index' = index
            /\ PublishesOn(Doc) => Last(published'[Doc]).step = "failed"
            /\ docs'[Doc].status # COMPLETED \/ docs[Doc].status = COMPLETED
            /\ w'.pc \in {"fail_update", "fail_publish"} \cup Ended]_vars

\* The attempt that failed in add_documents ends with status failed.
EndsFailed ==
    []((AddFailed /\ w.pc \in Ended) => docs[Doc].status = FAILED)

\* C29: if add_documents fails for batch k the attempt aborts with status
\* failed: the batches before k stay in the Vector Index, no batch after k is
\* submitted, no progress event is published for batch k and the Document does
\* not get status completed in that attempt.
C29_AddFailureAborts == AbortsQuietly /\ EndsFailed

----------------------------------------------------------------------------
(* The percentage of a batch, checked under Spec *)

\* round(a / b) as Python computes it for a >= 0, b > 0: to the nearest integer,
\* a tie going to the even one.
Round(a, b) ==
    LET q == a \div b
        r == a % b
    IN  IF 2 * r < b THEN q
        ELSE IF 2 * r > b THEN q + 1
        ELSE IF q % 2 = 0 THEN q ELSE q + 1

\* The step publishes the progress of batch w.batch_idx + 1.
PublishesBatch ==
    /\ w.pc = "embed_publish"
    /\ PublishesOn(Doc)

\* C30: for every number of batches n >= 1 and every i with 1 <= i <= n, the
\* progress published after batch i is indexed equals 20 + round(i / n * 75).
C30_ProgressRounded ==
    [][PublishesBatch
         => Last(published'[Doc]).progress
              = 20 + Round((w.batch_idx + 1) * 75, NumBatches(w.chunks))]_vars

----------------------------------------------------------------------------
(* The batches of the embed stage, checked under Spec *)

\* The event _embed publishes after a batch (107-110).
IsBatchEvent(e) == e.message[1] = "Indexation"

\* Number of per-batch events the attempt has published.
BatchEvents ==
    Cardinality({i \in 1 .. Len(published[Doc]) : IsBatchEvent(published[Doc][i])})

\* The step in which add_documents returns for batch w.batch_idx + 1.
Adds == w.pc = "embed_add" /\ w'.pc = "embed_publish"

\* The step in which the publish that follows a batch returns.
BatchPublished == w.pc = "embed_publish" /\ w'.pc \in {"embed_add", AfterEmbed}

\* C31: the embed stage submits every chunk exactly once and in order, in
\* ceil(n / BATCH_SIZE) batches of at most BATCH_SIZE chunks, all but the last
\* holding exactly BATCH_SIZE; one progress event follows each indexed batch.
\* A batch is the slice that starts right after the chunks submitted before it.
C31_EmbedBatches ==
    /\ [][Adds
           => LET size == index'[Doc] - index[Doc] IN
              /\ delivered[Doc] = 1 => index[Doc] = w.batch_idx * BATCH_SIZE
              /\ size >= 1 /\ size <= BATCH_SIZE
              /\ w.batch_idx * BATCH_SIZE + size <= w.chunks
              /\ size < BATCH_SIZE => w.batch_idx * BATCH_SIZE + size = w.chunks
              /\ BatchEvents = w.batch_idx]_vars
    /\ [][BatchPublished
           => /\ w'.batch_idx = w.batch_idx + 1
              /\ BatchEvents' = w'.batch_idx
              /\ IsBatchEvent(Last(published'[Doc]))
              /\ w'.pc = "embed_add" => w'.batch_idx * BATCH_SIZE < w.chunks
              /\ w'.pc = AfterEmbed
                 => /\ w'.batch_idx * BATCH_SIZE >= w.chunks
                    /\ (w'.batch_idx - 1) * BATCH_SIZE < w.chunks
                    /\ delivered[Doc] = 1 => index[Doc] = w.chunks]_vars

\* The largest document went through the embed stage: three batches, the last one
\* short, three per-batch events, every chunk in the index.
C31_Witness ==
    /\ w.pc = AfterEmbed
    /\ w.chunks = MaxChunks
    /\ w.batch_idx = NumBatches(MaxChunks)
    /\ BatchEvents = w.batch_idx
    /\ delivered[Doc] = 1
    /\ index[Doc] = MaxChunks

----------------------------------------------------------------------------
(* The tags of the chunks, checked under SpecDelete *)

\* The step in which _chunk reads the row and _chunk_pdf tags the chunks.
Splits == w.pc = "chunk_split" /\ w'.pc = "chunk_publish20"

\* Between the split and the end of the attempt the tags stay as they were set.
TagsKept ==
    [][w.pc \in {"chunk_publish20", "embed_add", "embed_publish"}
         => w'.source = w.source /\ w'.job = w.job]_vars

\* The source set by the split is the filename of the row read in that step.
SourceRead ==
    [][Splits
         => LET document == GetById(docs, w.job.document_id, w.job.company_id) IN
            document # NoDoc => w'.source = document.filename]_vars

\* The chunks handed to add_documents carry a filename read from the Document
\* Store: the row was there when _chunk read it.
SourceFromStore ==
    [][Adds => w.source # SourceOf(NoDoc)]_vars

\* C32: every chunk passed to add_documents carries the job's company_id and
\* document_id, and as source the filename read from the Document Store during
\* the chunk stage of that attempt.
C32_ChunkTags == TagsKept /\ SourceRead /\ SourceFromStore

----------------------------------------------------------------------------
(* The chat agent: SimpleAgent.serve, _handle_message, chat, search_documents *)

\* A tool that filters by the tenant whose context was set up last.
SearchFilter_Latest(state, latest) == latest

\* search_documents, 117: company_id = state.get("company_id"), the value the
\* graph state of the run carries.
SearchFilter(state, latest) == state

\* chat, 383-385: input_state["company_id"] = company_id
InputState(company_id) == company_id

\* What _handle_message publishes on outbox:{email}.
OutEvent(chunk, done) == [chunk |-> chunk, done |-> done]

\* The handler's task is over.
AgentEnd(m, e) ==
    agent' = [agent EXCEPT !.msgs[m].pc = "ended", !.msgs[m].error = e]

\* serve, 449-452: create_task(self._handle_message(channel, msg)) for a message
\* of tenant c.
AgentReceive(m) ==
    /\ agent.msgs[m].pc = "idle"
    /\ \E c \in Companies :
          agent' = [agent EXCEPT !.msgs[m].pc = "setup", !.msgs[m].company_id = c]
    /\ UNCHANGED <<docs, blobs, queue, index, published, w, delivered, hist, up, calls,
                   del, relay, pool>>

\* _handle_message, 464-476: the task starts.  _setup_company_context returns at
\* once when the tenant's agent is cached (220-221) and chat starts its run;
\* otherwise the task waits for CompanyRepository.get_by_id (227).
AgentSetup(m) ==
    /\ agent.msgs[m].pc = "setup"
    /\ LET c == agent.msgs[m].company_id IN
          IF c \in agent.cache
          THEN agent' = [agent EXCEPT !.latest = c, !.msgs[m].pc = "stream",
                                      !.msgs[m].state = InputState(c)]
          ELSE agent' = [agent EXCEPT !.latest = c, !.msgs[m].pc = "lookup"]
    /\ UNCHANGED <<docs, blobs, queue, index, published, w, delivered, hist, up, calls,
                   del, relay, pool>>

\* _setup_company_context, 227-233: the company is found and its agent cached,
\* or it is unknown, or the lookup raises; an exception here is outside the inner
\* try of _handle_message and is only logged (490-493).
AgentLookup(m) ==
    /\ agent.msgs[m].pc = "lookup"
    /\ LET c == agent.msgs[m].company_id IN
          \/ agent' = [agent EXCEPT !.cache = @ \cup {c}, !.msgs[m].pc = "stream",
                                    !.msgs[m].state = InputState(c)]
          \/ agent' = [agent EXCEPT !.msgs[m].pc = "stream",
                                    !.msgs[m].state = InputState(c)]
          \/ \E e \in ErrorTexts : AgentEnd(m, e)
    /\ UNCHANGED <<docs, blobs, queue, index, published, w, delivered, hist, up, calls,
                   del, relay, pool>>

\* The run calls search_documents (98-136), which filters by SearchFilter.
AgentSearch(m) ==
    /\ agent.msgs[m].pc = "stream"
    /\ Len(agent.msgs[m].filters) < MaxSearches
    /\ agent' = [agent EXCEPT !.msgs[m].filters =
                    Append(@, SearchFilter(agent.msgs[m].state, agent.latest))]
    /\ UNCHANGED <<docs, blobs, queue, index, published, w, delivered, hist, up, calls,
                   del, relay, pool>>

\* After an exception inside the inner try: the except branch (483-488).
AgentFail(m, e) ==
    agent' = [agent EXCEPT !.msgs[m].pc = "error_publish", !.msgs[m].error = e]

\* _handle_message, 476-478: chat yields a chunk and it is published done=False.
AgentChunk(m) ==
    /\ agent.msgs[m].pc = "stream"
    /\ Len(agent.msgs[m].out) < MaxChunkEvents
    /\ \/ agent' = [agent EXCEPT !.msgs[m].out = Append(@, OutEvent(<<"tok">>, FALSE))]
       \/ \E e \in ErrorTexts : AgentFail(m, e)
    /\ UNCHANGED <<docs, blobs, queue, index, published, w, delivered, hist, up, calls,
                   del, relay, pool>>

\* chat, 390-413: astream is exhausted, or it raises and chat raises AgentError.
AgentStreamEnd(m) ==
    /\ agent.msgs[m].pc = "stream"
    /\ \/ agent' = [agent EXCEPT !.msgs[m].pc = "done_publish"]
       \/ \E e \in ErrorTexts : AgentFail(m, e)
    /\ UNCHANGED <<docs, blobs, queue, index, published, w, delivered, hist, up, calls,
                   del, relay, pool>>

\* _handle_message, 480-481: publish {"chunk": "", "done": True}
AgentDonePublish(m) ==
    /\ agent.msgs[m].pc = "done_publish"
    /\ \/ agent' = [agent EXCEPT !.msgs[m].pc = "ended",
                                  !.msgs[m].out = Append(@, OutEvent(<<>>, TRUE))]
       \/ \E e \in ErrorTexts : AgentFail(m, e)
    /\ UNCHANGED <<docs, blobs, queue, index, published, w, delivered, hist, up, calls,
                   del, relay, pool>>

\* _handle_message, 483-488: publish {"chunk": f"Erreur: {str(e)}", "done": True};
\* an exception of this publish is only logged (492-493).
AgentErrorPublish(m) ==
    /\ agent.msgs[m].pc = "error_publish"
    /\ \/ agent' = [agent EXCEPT !.msgs[m].pc = "ended",
                                  !.msgs[m].out =
                                     Append(@, OutEvent(<<"Erreur: ", agent.msgs[m].error>>, TRUE))]
       \/ \E e \in ErrorTexts : agent' = [agent EXCEPT !.msgs[m].pc = "ended"]
    /\ UNCHANGED <<docs, blobs, queue, index, published, w, delivered, hist, up, calls,
                   del, relay, pool>>

NextAgent ==
    \/ \E m \in Msgs : AgentReceive(m)
    \/ \E m \in Msgs : AgentSetup(m)
    \/ \E m \in Msgs : AgentLookup(m)
    \/ \E m \in Msgs : AgentSearch(m)
    \/ \E m \in Msgs : AgentChunk(m)
    \/ \E m \in Msgs : AgentStreamEnd(m)
    \/ \E m \in Msgs : AgentDonePublish(m)
    \/ \E m \in Msgs : AgentErrorPublish(m)

\* The agent serves an empty system: InitRelay is the state with nothing stored.
SpecAgent == InitRelay /\ [][NextAgent]_vars

----------------------------------------------------------------------------
(* Tenant isolation of search_documents, checked under SpecAgent *)

\* Message m is being handled.
InFlight(m) == agent.msgs[m].pc \notin {"idle", "ended"}

\* The step in which the run of m calls search_documents.
Searches(m) == Len(agent'.msgs[m].filters) = Len(agent.msgs[m].filters) + 1

----------------------------------------------------------------------------
(* Delete overlapping a processing attempt, checked under SpecDelete *)

\* The delete of d returned and the processing of d's job is over: the job was
\* delivered, its attempt has ended and no job of d waits in the queue.
BothFinished(d) ==
    /\ Deleted
    /\ del.document_id = d
    /\ w.pc \in Ended
    /\ w.job.document_id = d
    /\ \A j \in queue : j.document_id # d

\* C34: if the delete of a document succeeds while a processing attempt for it is
\* in flight or its job is still queued, then once both have finished the Vector
\* Index holds no chunk tagged with the document_id and no row for it exists.
C34_NothingLeftAfterBoth ==
    \A d \in DocIds :
        BothFinished(d) => index[d] = 0 /\ docs[d] = NoDoc

\* The row part alone: no row for the document exists once both have finished.
RowGoneAfterBoth ==
    \A d \in DocIds : BothFinished(d) => docs[d] = NoDoc

----------------------------------------------------------------------------
(* The quota over time: uploads of one caller, one after the other, the worker
   processing their jobs, and delete calls. *)

\* The runs looked at: one tenant uploads and deletes; every upload passes
\* validation (a validation failure stores nothing); every delete finds its
\* document and its collaborators answer; the worker's collaborators answer, so
\* an attempt fails only where a delete has removed what it needs.
QuotaScope ==
    /\ up["u1"].company_id \in {"none", "t1"}
    /\ up["u1"].error.type \notin {"InvalidFileTypeError", "FileTooLargeError"}
    /\ del.company_id \in {"none", "t1"}
    /\ del.error.type = "none"
    /\ ~w.injected

NextQuota ==
    \/ UploadBegin("u1") /\ QuotaScope'
    \/ UploadTotalPages("u1")
    \/ UploadStorage("u1")
    \/ UploadCreate("u1")
    \/ UploadEnqueue("u1")
    \/ DeleteGet /\ QuotaScope'
    \/ DeleteVectors /\ QuotaScope'
    \/ DeleteBlob /\ QuotaScope'
    \/ DeleteRow /\ QuotaScope'
    \/ StartAttempt
    \/ DownloadPublish0 /\ QuotaScope'
    \/ DownloadGet /\ QuotaScope'
    \/ DownloadPublish10 /\ QuotaScope'
    \/ ChunkUpdate /\ QuotaScope'
    \/ ChunkPublish10 /\ QuotaScope'
    \/ ChunkSplit /\ QuotaScope'
    \/ ChunkPublish20 /\ QuotaScope'
    \/ EmbedAdd /\ QuotaScope'
    \/ EmbedPublish /\ QuotaScope'
    \/ CompleteUpdate /\ QuotaScope'
    \/ CompleteDelete /\ QuotaScope'
    \/ CompletePublish /\ QuotaScope'
    \/ FailUpdate /\ QuotaScope'
    \/ FailPublish /\ QuotaScope'

\* The tenant's first upload has returned: its row is queued, its blob stored,
\* its job in the queue.  The calls made since were turned away by validation
\* and left nothing; one call is still to come.
InitQuota ==
    /\ \E n \in PageCounts :
          /\ docs = [d \in DocIds |->
                       IF d = NewId(1) THEN Row("t1", "a.pdf", StorageKey("t1", d), n)
                       ELSE NoDoc]
          /\ blobs = (StorageKey("t1", NewId(1)) :> n)
    /\ queue = {Payload(NewId(1), "t1", StorageKey("t1", NewId(1)))}
    /\ index = [d \in DocIds |-> 0]
    /\ published = [d \in DocIds |-> <<>>]
    /\ w = Idle
    /\ delivered = [d \in DocIds |-> 0]
    /\ hist = [d \in DocIds |-> <<>>]
    /\ up = [u \in Callers |-> NoUpload]
    /\ calls = MaxUploads - 1
    /\ del = NoDelete
    /\ relay = [k \in Connections |-> NoStream]
    /\ agent = NoAgent
    /\ pool = NoPool

SpecQuota == InitQuota /\ [][NextQuota]_vars

----------------------------------------------------------------------------
(* The quota when uploads do not overlap, checked under SpecQuota *)

\* C35: when the uploads of a tenant do not overlap in time, the sum of num_pages
\* over the tenant's rows never exceeds MAX_PAGES_PER_COMPANY, whatever uploads,
\* processing attempts and deletes occur.
C35_QuotaKept ==
    \A c \in Companies : GetTotalPages(docs, c) <= MAX_PAGES_PER_COMPANY

\* The second upload returned and fills the quota exactly, next to the first
\* document, which the worker has completed.
C35_Witness ==
    /\ up["u1"].pc = "returned"
    /\ docs[up["u1"].document_id] # NoDoc
    /\ docs[NewId(1)] # NoDoc
    /\ docs[NewId(1)].status = COMPLETED
    /\ GetTotalPages(docs, "t1") = MAX_PAGES_PER_COMPANY

\* The upload call gets the tenant's total back from get_total_pages.
QuotaRead ==
    /\ up["u1"].pc = "total_pages"
    /\ up'["u1"].pc # "total_pages"
    /\ up'["u1"].error.type # "Exception"

\* The pages of the tenant's rows, status by status.
PagesByStatus(store, c) ==
    PagesWithStatus(store, c, QUEUED, DocIds)
    + PagesWithStatus(store, c, VECTORIZING, DocIds)
    + PagesWithStatus(store, c, FAILED, DocIds)
    + PagesWithStatus(store, c, COMPLETED, DocIds)

\* The total the call read counts the rows of every status, and the call is
\* turned away exactly when that total plus its pages exceeds the maximum.
CountsEveryStatus ==
    [][QuotaRead =>
         /\ up'["u1"].current_total = PagesByStatus(docs, up["u1"].company_id)
         /\ (up'["u1"].error.type = "PageLimitExceededError")
              <=> (PagesByStatus(docs, up["u1"].company_id) + up["u1"].num_pages
                     > MAX_PAGES_PER_COMPANY)]_vars

\* A step that changes the status of a row.
StatusChange ==
    \E d \in DocIds : /\ docs[d] # NoDoc
                      /\ docs'[d] # NoDoc
                      /\ docs'[d].status # docs[d].status

StatusKeepsTotal ==
    [][StatusChange =>
         \A c \in Companies : GetTotalPages(docs', c) = GetTotalPages(docs, c)]_vars

\* The step of DeleteDocumentUseCase that removes the row.
RowDeleted ==
    /\ del.pc = "repo_delete"
    /\ del'.pc = "returned"
    /\ docs[del.document_id] # NoDoc
    /\ docs'[del.document_id] = NoDoc

OnlyDeleteFrees ==
    [][\A c \in Companies :
          GetTotalPages(docs', c) < GetTotalPages(docs, c) => RowDeleted]_vars

\* C36: the quota total counts the pages of every row of the tenant whatever
\* its status (queued, vectorizing and failed like completed), a status change
\* never changes the total, and only deleting a document frees its pages.
C36_EveryStatusCounts == CountsEveryStatus /\ StatusKeepsTotal /\ OnlyDeleteFrees

\* An upload was turned away for its pages by a total made of the pages of a
\* document whose processing failed.
C36_Witness ==
    /\ up["u1"].error.type = "PageLimitExceededError"
    /\ docs[NewId(1)] # NoDoc
    /\ docs[NewId(1)].status = FAILED
    /\ up["u1"].current_total = docs[NewId(1)].num_pages

----------------------------------------------------------------------------
(* Documents without chunks, checked under Spec *)

\* The chunk stage of the attempt returned an empty list of chunks.
ZeroChunks == w.source # "none" /\ w.chunks = 0

\* The attempt is not at add_documents nor at the publish that follows a batch,
\* and has published no per-batch event.
NoBatchWork ==
    /\ w.pc \notin {"embed_add", "embed_publish"}
    /\ BatchEvents = 0

\* The attempt returned: row completed, blob gone, last event completed 100 done.
EndsCompleted ==
    /\ w.pc = "returned"
    /\ docs[Doc].status = COMPLETED
    /\ w.job.gcs_path \notin DOMAIN blobs
    /\ Len(AttemptEvents) >= 1
    /\ StepAndProgress(Last(AttemptEvents)) = <<"completed", 100, TRUE>>
    /\ \A i \in 1 .. Len(AttemptEvents) - 1 : ~AttemptEvents[i].done

\* C37: when chunking yields zero chunks the attempt makes no add_documents
\* call and publishes no per-batch event, and (its other calls returning) it
\* still ends with status completed, the blob deleted and the terminal event
\* completed 100 done.
C37_ZeroChunksComplete ==
    /\ [](ZeroChunks => NoBatchWork)
    /\ [][ZeroChunks => index' = index]_vars
    /\ []((ZeroChunks /\ AttemptOver /\ ~w.failed) => EndsCompleted)

\* An attempt on a document without chunks has returned, nothing in the index.
C37_Witness ==
    /\ ZeroChunks
    /\ w.pc = "returned"
    /\ ~w.failed
    /\ index[Doc] = 0
    /\ docs[Doc].status = COMPLETED

----------------------------------------------------------------------------
(* The events of one chat message, checked under SpecAgent *)

\* The handling of m is over.
Handled(m) == agent.msgs[m].pc = "ended"

\* The events published for m are chunk events followed by one done event.
ChunksThenDone(out) ==
    /\ Len(out) >= 1
    /\ Last(out).done
    /\ \A i \in 1 .. Len(out) - 1 : ~out[i].done

\* The done event of a failed generation carries the error text.
CarriesError(m) ==
    agent.msgs[m].error # "none"
    => Last(agent.msgs[m].out).chunk = <<"Erreur: ", agent.msgs[m].error>>

\* C38: for every inbox message it handles the agent publishes zero or more
\* chunk events with done=false followed by exactly one event with done=true,
\* the last event for the message; also when generating the response fails, and
\* then the done event carries the error text.
C38_OneDoneLast ==
    \A m \in Msgs :
        Handled(m) => ChunksThenDone(agent.msgs[m].out) /\ CarriesError(m)

\* What holds for every handled message: no event follows a done event, and a
\* done event published after a failure carries the error text.
DoneIsLast ==
    \A m \in Msgs :
        LET out == agent.msgs[m].out IN
        /\ \A i \in 1 .. Len(out) - 1 : ~out[i].done
        /\ (Handled(m) /\ Len(out) >= 1 /\ Last(out).done) => CarriesError(m)

----------------------------------------------------------------------------
(* ArqJobQueueAdapter: the lazily created Redis pool *)

\* enqueue, 43, and _get_pool, 37-40: the call reads self._pool.  When it is
\* None the call awaits create_pool; otherwise _get_pool returns at once and the
\* call awaits pool.enqueue_job on the pool it read.
EnqueueBegin(e) ==
    /\ pool.call[e].pc = "idle"
    /\ pool.enqueues < MaxEnqueues
    /\ IF pool.pool = 0
       THEN pool' = [pool EXCEPT !.enqueues = @ + 1,
                                 !.created = @ + 1,
                                 !.raced = @ \/ \E o \in Enqueuers : pool.call[o].pc = "create",
                                 !.call[e] = [pc |-> "create", pool |-> pool.created + 1]]
       ELSE pool' = [pool EXCEPT !.enqueues = @ + 1,
                                 !.call[e] = [pc |-> "enqueue_job", pool |-> pool.pool]]
    /\ UNCHANGED <<docs, blobs, queue, index, published, w, delivered, hist, up, calls,
                   del, relay, agent>>

\* _get_pool, 39-40: create_pool returns; self._pool = the new pool.
CreateDone(e) ==
    /\ pool.call[e].pc = "create"
    /\ pool' = [pool EXCEPT !.pool = pool.call[e].pool, !.call[e].pc = "enqueue_job"]
    /\ UNCHANGED <<docs, blobs, queue, index, published, w, delivered, hist, up, calls,
                   del, relay, agent>>

\* enqueue, 44-45: pool.enqueue_job returns and so does the call.
EnqueueJob(e) ==
    /\ pool.call[e].pc = "enqueue_job"
    /\ pool' = [pool EXCEPT !.call[e] = [pc |-> "idle", pool |-> 0]]
    /\ UNCHANGED <<docs, blobs, queue, index, published, w, delivered, hist, up, calls,
                   del, relay, agent>>

\* close, 47-49: nothing to do without a pool; otherwise await self._pool.aclose().
CloseBegin ==
    /\ pool.close = "idle"
    /\ pool.closes < MaxCloses
    /\ IF pool.pool = 0
       THEN pool' = [pool EXCEPT !.closes = @ + 1]
       ELSE pool' = [pool EXCEPT !.closes = @ + 1, !.close = "aclose",
                                 !.closing = pool.pool]
    /\ UNCHANGED <<docs, blobs, queue, index, published, w, delivered, hist, up, calls,
                   del, relay, agent>>

\* close, 49-50: aclose returns; self._pool = None.
CloseDone ==
    /\ pool.close = "aclose"
    /\ pool' = [pool EXCEPT !.aclosed = @ \cup {pool.closing}, !.pool = 0,
                             !.close = "idle", !.closing = 0]
    /\ UNCHANGED <<docs, blobs, queue, index, published, w, delivered, hist, up, calls,
                   del, relay, agent>>

NextPool ==
    \/ \E e \in Enqueuers : EnqueueBegin(e)
    \/ \E e \in Enqueuers : CreateDone(e)
    \/ \E e \in Enqueuers : EnqueueJob(e)
    \/ CloseBegin
    \/ CloseDone

\* The adapter right after __init__, in a system with nothing stored.
SpecPool == InitRelay /\ [][NextPool]_vars

\* As long as close() is not called, the enqueue calls made so far, concurrent
\* first calls included, have resulted in a single create_pool call.
CreatedOnce == (pool.closes = 0 /\ pool.enqueues >= 1) => pool.created = 1

\* close() closes the pool it found and clears self._pool.
ClosesAndClears ==
    [][(pool.close = "aclose" /\ pool'.close = "idle")
         => pool'.pool = 0 /\ pool.closing \in pool'.aclosed]_vars

\* close() is a no-op when no pool exists.
CloseNoOp ==
    [][(pool'.closes = pool.closes + 1 /\ pool.pool = 0)
         => /\ pool'.pool = 0
            /\ pool'.close = "idle"
            /\ pool'.aclosed = pool.aclosed
            /\ pool'.created = pool.created
            /\ pool'.call = pool.call]_vars

\* The first enqueue that begins after a close() has returned creates a pool.
NewPoolAfterClose ==
    [][(pool'.enqueues = pool.enqueues + 1 /\ pool.pool = 0)
         => pool'.created = pool.created + 1]_vars

\* C39: the adapter creates its Redis pool lazily and at most once: any number of
\* enqueue calls, concurrent first calls included, result in a single
\* create_pool call as long as close() is not called; close() closes and clears
\* the pool and is a no-op when no pool exists; the next enqueue after close()
\* creates a new pool.
C39_PoolCreatedOnce ==
    /\ []CreatedOnce
    /\ ClosesAndClears
    /\ CloseNoOp
    /\ NewPoolAfterClose

\* What holds of the pool: it is created lazily, and once when no enqueue call
\* begins while another one is still creating the pool.
CreatedOnceInTurn ==
    /\ pool.enqueues = 0 => pool.created = 0
    /\ (pool.closes = 0 /\ pool.enqueues >= 1 /\ ~pool.raced) => pool.created = 1

PoolParts == []CreatedOnceInTurn /\ ClosesAndClears /\ CloseNoOp /\ NewPoolAfterClose

====
